---- MODULE Spec2Model ----
(***************************************************************************)
(* BuildCache: the environment access layer, the cache orchestration and   *)
(* the Rust and Cppcheck program wrappers.                                  *)
(*                                                                         *)
(* A string is a sequence of one-character strings, so that splitting,     *)
(* joining, searching and sorting are computed character by character as   *)
(* the code computes them.                                                 *)
(***************************************************************************)
EXTENDS Integers, Sequences, FiniteSets, TLC

VARIABLES
    env,      \* the process environment: the value of each defined name
    scopes,   \* the alive scoped_set_env_t / scoped_unset_env_t objects, innermost last
    probe,    \* history: the last rustc probe, if nothing has happened since
    cache,    \* the cache backend: fingerprint -> stored entry
    inv,      \* the invocation the orchestrator is handling, with its history
    ninv,     \* the number of invocations started so far
    rust,     \* the rust_wrapper_t object of a build
    disk,     \* the files that exist
    depfile,  \* the dep-info file rustc writes for the crate
    cpp,      \* the cppcheck_wrapper_t object of an invocation
    evar   \* the env_var_t object last constructed, and what was read of it

envVars == <<env, scopes, probe>>
orchVars == <<cache, inv, ninv>>
\* What the operations of each part leave alone.
rustVars == <<rust, disk, depfile>>
notEnv == <<orchVars, rustVars, cpp, evar>>
notOrch == <<envVars, rustVars, cpp, evar>>

----------------------------------------------------------------------------
(* Characters and strings                                                  *)

\* The byte value of each character (std::string compares bytes).
Ascii ==
    "\n" :> 10 @@ "\t" :> 9 @@
    " " :> 32 @@ "!" :> 33 @@ "#" :> 35 @@ "$" :> 36 @@ "%" :> 37 @@ "&" :> 38 @@
    "'" :> 39 @@ "(" :> 40 @@ ")" :> 41 @@ "*" :> 42 @@ "+" :> 43 @@ "," :> 44 @@
    "-" :> 45 @@ "." :> 46 @@ "/" :> 47 @@ "0" :> 48 @@ "1" :> 49 @@ "2" :> 50 @@
    "3" :> 51 @@ "4" :> 52 @@ "5" :> 53 @@ "6" :> 54 @@ "7" :> 55 @@ "8" :> 56 @@
    "9" :> 57 @@ ":" :> 58 @@ ";" :> 59 @@ "<" :> 60 @@ "=" :> 61 @@ ">" :> 62 @@
    "?" :> 63 @@ "@" :> 64 @@ "A" :> 65 @@ "B" :> 66 @@ "C" :> 67 @@ "D" :> 68 @@
    "E" :> 69 @@ "F" :> 70 @@ "G" :> 71 @@ "H" :> 72 @@ "I" :> 73 @@ "J" :> 74 @@
    "K" :> 75 @@ "L" :> 76 @@ "M" :> 77 @@ "N" :> 78 @@ "O" :> 79 @@ "P" :> 80 @@
    "Q" :> 81 @@ "R" :> 82 @@ "S" :> 83 @@ "T" :> 84 @@ "U" :> 85 @@ "V" :> 86 @@
    "W" :> 87 @@ "X" :> 88 @@ "Y" :> 89 @@ "Z" :> 90 @@ "[" :> 91 @@ "]" :> 93 @@
    "^" :> 94 @@ "_" :> 95 @@ "a" :> 97 @@ "b" :> 98 @@ "c" :> 99 @@
    "d" :> 100 @@ "e" :> 101 @@ "f" :> 102 @@ "g" :> 103 @@ "h" :> 104 @@ "i" :> 105 @@
    "j" :> 106 @@ "k" :> 107 @@ "l" :> 108 @@ "m" :> 109 @@ "n" :> 110 @@ "o" :> 111 @@
    "p" :> 112 @@ "q" :> 113 @@ "r" :> 114 @@ "s" :> 115 @@ "t" :> 116 @@ "u" :> 117 @@
    "v" :> 118 @@ "w" :> 119 @@ "x" :> 120 @@ "y" :> 121 @@ "z" :> 122 @@ "{" :> 123 @@
    "|" :> 124 @@ "}" :> 125 @@ "~" :> 126

\* std::string::operator< : lexicographic comparison of the bytes.
RECURSIVE StrLess(_, _)
StrLess(a, b) ==
    IF b = <<>> THEN FALSE
    ELSE IF a = <<>> THEN TRUE
    ELSE IF Ascii[Head(a)] < Ascii[Head(b)] THEN TRUE
    ELSE IF Ascii[Head(a)] > Ascii[Head(b)] THEN FALSE
    ELSE StrLess(Tail(a), Tail(b))

\* The elements of a sequence, as a set.
Range(s) == {s[i] : i \in 1..Len(s)}

\* std::find(list.begin(), list.end(), x) != list.end()
Contains(list, x) == \E i \in 1..Len(list) : list[i] = x

\* Insert x into the sorted list s, after the elements that are not greater.
RECURSIVE InsertSorted(_, _)
InsertSorted(s, x) ==
    IF s = <<>> THEN <<x>>
    ELSE IF StrLess(x, Head(s)) THEN <<x>> \o s
    ELSE <<Head(s)>> \o InsertSorted(Tail(s), x)

\* std::sort(list.begin(), list.end()) on a list of strings.
RECURSIVE SortStrings(_)
SortStrings(list) ==
    IF list = <<>> THEN <<>>
    ELSE InsertSorted(SortStrings(Tail(list)), Head(list))

\* std::string::find(sub) != npos : sub occurs somewhere in s.
StrContains(s, sub) ==
    \E i \in 1..(Len(s) - Len(sub) + 1) : SubSeq(s, i, i + Len(sub) - 1) = sub

\* s begins with prefix.
StartsWith(s, prefix) ==
    Len(s) >= Len(prefix) /\ SubSeq(s, 1, Len(prefix)) = prefix

\* The position of the first occurrence of the character c in s, 0 if none.
RECURSIVE FirstIndex(_, _, _)
FirstIndex(s, c, i) ==
    IF i > Len(s) THEN 0
    ELSE IF s[i] = c THEN i
    ELSE FirstIndex(s, c, i + 1)

\* string_list_t(str, delimiter): the fields of str between the occurrences
\* of the delimiter character; k occurrences give k + 1 fields, empty fields
\* are kept.
RECURSIVE Split(_, _)
Split(str, delimiter) ==
    LET p == FirstIndex(str, delimiter, 1)
    IN  IF p = 0 THEN <<str>>
        ELSE <<SubSeq(str, 1, p - 1)>> \o Split(SubSeq(str, p + 1, Len(str)), delimiter)

\* string_list_t::join(separator): the elements with the separator between them.
RECURSIVE Join(_, _)
Join(list, separator) ==
    IF list = <<>> THEN <<>>
    ELSE IF Len(list) = 1 THEN list[1]
    ELSE list[1] \o separator \o Join(Tail(list), separator)

----------------------------------------------------------------------------
(* The environment access layer (base/env_utils)                           *)

\* The names of environment variables: the ten that run_rustc turns off, the
\* one of the tests, and variables of a cargo build.
envname ==
    [LD_PRELOAD |-> <<"L", "D", "_", "P", "R", "E", "L", "O", "A", "D">>,
     RUNNING_UNDER_RR |-> <<"R", "U", "N", "N", "I", "N", "G", "_", "U", "N", "D", "E", "R", "_", "R", "R">>,
     HOSTNAME |-> <<"H", "O", "S", "T", "N", "A", "M", "E">>,
     PWD |-> <<"P", "W", "D">>,
     HOST |-> <<"H", "O", "S", "T">>,
     RPM_BUILD_ROOT |-> <<"R", "P", "M", "_", "B", "U", "I", "L", "D", "_", "R", "O", "O", "T">>,
     SOURCE_DATE_EPOCH |-> <<"S", "O", "U", "R", "C", "E", "_", "D", "A", "T", "E", "_", "E", "P", "O", "C", "H">>,
     RPM_PACKAGE_RELEASE |-> <<"R", "P", "M", "_", "P", "A", "C", "K", "A", "G", "E", "_", "R", "E", "L", "E", "A", "S", "E">>,
     MINICOM |-> <<"M", "I", "N", "I", "C", "O", "M">>,
     RPM_PACKAGE_VERSION |-> <<"R", "P", "M", "_", "P", "A", "C", "K", "A", "G", "E", "_", "V", "E", "R", "S", "I", "O", "N">>,
     A_VARIABLE |-> <<"A", "_", "V", "A", "R", "I", "A", "B", "L", "E">>,
     A_BOOLEAN_VARIABLE |-> <<"A", "_", "B", "O", "O", "L", "E", "A", "N", "_", "V", "A", "R", "I", "A", "B", "L", "E">>,
     CARGO_PKG_NAME |-> <<"C", "A", "R", "G", "O", "_", "P", "K", "G", "_", "N", "A", "M", "E">>,
     CARGO_MAKEFLAGS |-> <<"C", "A", "R", "G", "O", "_", "M", "A", "K", "E", "F", "L", "A", "G", "S">>,
     RUSTC_COLOR |-> <<"R", "U", "S", "T", "C", "_", "C", "O", "L", "O", "R">>,
     RUSTFLAGS |-> <<"R", "U", "S", "T", "F", "L", "A", "G", "S">>]

\* The values the environment variables take.
val ==
    [empty |-> <<>>,
     X |-> <<"X">>,
     old |-> <<"o", "l", "d">>,
     a_eq_b |-> <<"a", "=", "b">>,
     CARGO_x |-> <<"C", "A", "R", "G", "O", "_", "x">>,
     junk |-> <<"j", "u", "n", "k">>,
     TRUe |-> <<"T", "R", "U", "e">>,
     On |-> <<"O", "n">>,
     yES |-> <<"y", "E", "S">>,
     one |-> <<"1">>,
     Hello_world |-> <<"H", "e", "l", "l", "o", " ", "w", "o", "r", "l", "d", "!">>,
     FaLSe |-> <<"F", "a", "L", "S", "e">>,
     OfF |-> <<"O", "f", "F">>,
     No |-> <<"N", "o">>,
     zero |-> <<"0">>,
     OFF |-> <<"O", "F", "F">>,
     off |-> <<"o", "f", "f">>,
     no |-> <<"n", "o">>,
     false |-> <<"f", "a", "l", "s", "e">>,
     false_space |-> <<"f", "a", "l", "s", "e", " ">>,
     n |-> <<"n">>,
     zero_zero |-> <<"0", "0">>]

\* The list `unset` of run_rustc, in its order.
unset ==
    << envname.LD_PRELOAD, envname.RUNNING_UNDER_RR, envname.HOSTNAME, envname.PWD, envname.HOST,
       envname.RPM_BUILD_ROOT, envname.SOURCE_DATE_EPOCH, envname.RPM_PACKAGE_RELEASE,
       envname.MINICOM, envname.RPM_PACKAGE_VERSION >>

\* The environment is a map from the names that are defined to their values.
\* The state of one variable:
Undefined == [defined |-> FALSE, value |-> <<>>]
Defined(value) == [defined |-> TRUE, value |-> value]
StateOf(e, name) == IF name \in DOMAIN e THEN Defined(e[name]) ELSE Undefined

\* env_defined(name)
env_defined(e, name) == name \in DOMAIN e

\* get_env(name): the value, the empty string when the variable is undefined.
get_env(e, name) == IF name \in DOMAIN e THEN e[name] ELSE <<>>

\* set_env(name, value)
set_env(e, name, value) ==
    [n \in DOMAIN e \cup {name} |-> IF n = name THEN value ELSE e[n]]

\* Mutant: the variable is left defined, with the empty value.
unset_env_to_empty(e, name) ==
    [n \in DOMAIN e \cup {name} |-> IF n = name THEN <<>> ELSE e[n]]

\* unset_env(name)
unset_env(e, name) == [n \in DOMAIN e \ {name} |-> e[n]]

\* get_env(): every defined variable as NAME=VALUE (the order is unspecified).
get_env_all(e) == {name \o <<"=">> \o e[name] : name \in DOMAIN e}

\* scoped_set_env_t(name, value): remember the state of the variable, then set it.
scoped_set_env_t(e, name, value) ==
    [env |-> set_env(e, name, value),
     guard |-> [kind |-> "set", name |-> name, old |-> StateOf(e, name)]]

\* scoped_unset_env_t(name): remember the state of the variable, then unset it.
scoped_unset_env_t(e, name) ==
    [env |-> unset_env(e, name),
     guard |-> [kind |-> "unset", name |-> name, old |-> StateOf(e, name)]]

\* Mutant: the destructor always sets the variable, also when it was undefined.
scoped_env_restore_always_set(e, guard) == set_env(e, guard.name, guard.old.value)

\* ~scoped_set_env_t / ~scoped_unset_env_t: put the remembered state back.
scoped_env_restore(e, guard) ==
    IF guard.old.defined
    THEN set_env(e, guard.name, guard.old.value)
    ELSE unset_env(e, guard.name)

\* std::vector<scoped_unset_env_t>(unset.begin(), unset.end()): one guard per
\* name, constructed in place in the order of the list.
RECURSIVE scoped_excluded_env(_, _)
scoped_excluded_env(e, names) ==
    IF names = <<>> THEN [env |-> e, guards |-> <<>>]
    ELSE LET first == scoped_unset_env_t(e, Head(names))
             rest == scoped_excluded_env(first.env, Tail(names))
         IN  [env |-> rest.env, guards |-> <<first.guard>> \o rest.guards]

\* The vector's destructor: every guard restores its variable (the names are
\* distinct, so the order of destruction does not show).
RECURSIVE destroy_excluded_env(_, _)
destroy_excluded_env(e, guards) ==
    IF guards = <<>> THEN e
    ELSE destroy_excluded_env(scoped_env_restore(e, Head(guards)), Tail(guards))

\* Mutant: the guards are destroyed before sys::run is called.
run_rustc_unguarded(e, args, result) ==
    LET excluded == scoped_excluded_env(e, unset)
        restored == destroy_excluded_env(excluded.env, excluded.guards)
    IN  [seen |-> restored, args |-> args, result |-> result, env |-> restored]

\* run_rustc(args, quiet): sys::run with the variables of `unset` turned off.
\* `result` is what the rustc process returns; `seen` is the environment the
\* process inherits.
run_rustc(e, args, result) ==
    LET excluded == scoped_excluded_env(e, unset)
    IN  [seen |-> excluded.env,
         args |-> args,
         result |-> result,
         env |-> destroy_excluded_env(excluded.env, excluded.guards)]

----------------------------------------------------------------------------
(* Bounds and inputs of the environment model                              *)

\* The deepest nesting of scoped guards.
MaxDepth == 2
\* The number of variables defined when the process starts.
MaxInitDefined == 1

\* The names the program sets, unsets and guards itself.
TestNames == {envname.A_VARIABLE, envname.PWD}
\* The values it gives them.
Values == {val.empty, val.X}
\* The names and values that may be defined when the process starts.
InitNames == Range(unset) \cup {envname.A_VARIABLE}
InitValues == {val.old}

\* The command lines of the four probes, and the exit codes and outputs of a
\* rustc probe.
ProbeArgs ==
    {<<"rustc", "-vV">>, <<"rustc", "--print=sysroot">>,
     <<"rustc", "--print", "file-names">>, <<"rustc", "--emit=dep-info">>}
ProbeResults ==
    {[return_code |-> 0, std_out |-> <<>>], [return_code |-> 1, std_out |-> <<>>]}

\* History record of a rustc probe: the environment the process inherited
\* and its exit code.
NoProbe ==
    [valid |-> FALSE, args |-> <<>>, seen |-> <<>>, return_code |-> 0, std_out |-> <<>>]
Probe(ran) ==
    [valid |-> TRUE, args |-> ran.args, seen |-> ran.seen,
     return_code |-> ran.result.return_code, std_out |-> ran.result.std_out]

\* The environments a process may start with.
InitialEnvs ==
    UNION {[D -> InitValues] :
           D \in {S \in SUBSET InitNames : Cardinality(S) <= MaxInitDefined}}

----------------------------------------------------------------------------
(* Operations on the environment                                           *)

\* set_env / unset_env called by the program itself, outside any guarded block
\* (as the callers in the repository do).
SetEnv(name, value) ==
    /\ scopes = <<>>
    /\ env' = set_env(env, name, value)
    /\ UNCHANGED scopes
    /\ probe' = NoProbe
    /\ UNCHANGED notEnv

UnsetEnv(name) ==
    /\ scopes = <<>>
    /\ env' = unset_env(env, name)
    /\ UNCHANGED scopes
    /\ probe' = NoProbe
    /\ UNCHANGED notEnv

\* Enter a block that declares scoped_set_env_t scoped_env(name, value).
\* `value` and `prior` are history: the value given, and the state of the
\* variable when the block was entered.
ScopedSetEnter(name, value) ==
    /\ Len(scopes) < MaxDepth
    /\ LET made == scoped_set_env_t(env, name, value)
       IN  /\ env' = made.env
           /\ scopes' = Append(scopes, [guard |-> made.guard, value |-> value,
                                        prior |-> StateOf(env, name)])
    /\ probe' = NoProbe
    /\ UNCHANGED notEnv

\* Enter a block that declares scoped_unset_env_t scoped_env(name).
ScopedUnsetEnter(name) ==
    /\ Len(scopes) < MaxDepth
    /\ LET made == scoped_unset_env_t(env, name)
       IN  /\ env' = made.env
           /\ scopes' = Append(scopes, [guard |-> made.guard, value |-> <<>>,
                                        prior |-> StateOf(env, name)])
    /\ probe' = NoProbe
    /\ UNCHANGED notEnv

\* Leave the innermost block (normally, by an early exit or by an exception):
\* the destructor of its guard runs.
ScopeExit ==
    /\ scopes # <<>>
    /\ env' = scoped_env_restore(env, scopes[Len(scopes)].guard)
    /\ scopes' = SubSeq(scopes, 1, Len(scopes) - 1)
    /\ probe' = NoProbe
    /\ UNCHANGED notEnv

\* One rustc probe through run_rustc (the wrapper holds no guard of its own
\* when it makes one).
RunRustc(args, result) ==
    /\ scopes = <<>>
    /\ LET ran == run_rustc(env, args, result)
       IN  /\ env' = ran.env
           /\ probe' = Probe(ran)
    /\ UNCHANGED <<scopes, notEnv>>

NextEnv ==
    \/ \E name \in TestNames, value \in Values : SetEnv(name, value)
    \/ \E name \in TestNames : UnsetEnv(name)
    \/ \E name \in TestNames, value \in Values : ScopedSetEnter(name, value)
    \/ \E name \in TestNames : ScopedUnsetEnter(name)
    \/ ScopeExit
    \/ \E args \in ProbeArgs, result \in ProbeResults : RunRustc(args, result)

----------------------------------------------------------------------------
(* The orchestrator of the program-wrapper abstraction (spec 4.D.1)        *)

\* The number of invocations that run one after the other on one cache.
MaxInvocations == 3

\* The fingerprints, the output texts and the exit codes of the model.
Fingerprints == {"f1", "f2"}
Outputs == {"out1", "out2"}
ExitCodes == {0, 1}

\* What a run of the compiler, or a replayed entry, gives back.
RunResult(exit_code, std_out) == [exit_code |-> exit_code, std_out |-> std_out]
NoResult == RunResult(0, "")

\* An entry of the cache: the captured result, and whether the stored files
\* are all still there.
Entry(result, intact) == [result |-> result, intact |-> intact]

\* cache.lookup(fingerprint): a hit needs an entry whose expected files are
\* all present; a corrupt entry is treated as a miss (spec 7).
lookup(c, fingerprint) ==
    IF fingerprint \in DOMAIN c /\ c[fingerprint].intact THEN "hit" ELSE "miss"

\* cache.store(fingerprint, entry)
store(c, fingerprint, result) ==
    [f \in DOMAIN c \cup {fingerprint} |->
        IF f = fingerprint THEN Entry(result, TRUE) ELSE c[f]]

\* Mutant: every compile is stored, whatever its exit code.
may_store_always(result) == TRUE

\* An entry is stored only for a compile that succeeded.
may_store(result) == result.exit_code = 0

\* The state of one invocation. pc is the place in the state machine of
\* 4.D.1; the other fields are the orchestrator's locals and the history of
\* what it did.
NewInvocation ==
    [pc |-> "start", fingerprint |-> "", mode |-> "", lookup |-> "none",
     built |-> FALSE, direct |-> FALSE, stored |-> FALSE,
     run |-> NoResult, hit |-> NoResult, result |-> NoResult, outcome |-> "none"]

\* can_handle_command(): a wrapper claims the invocation, or none does and
\* the outer system falls through to direct execution.
CanHandleCommand(claimed) ==
    /\ inv.pc = "start"
    /\ inv' = [inv EXCEPT !.pc = IF claimed THEN "resolve_args" ELSE "bypass"]
    /\ UNCHANGED <<cache, ninv, notOrch>>

\* resolve_args(): errors abort the cache path.
ResolveArgs(ok) ==
    /\ inv.pc = "resolve_args"
    /\ inv' = [inv EXCEPT !.pc = IF ok THEN "hash" ELSE "bypass"]
    /\ UNCHANGED <<cache, ninv, notOrch>>

\* get_capabilities() and direct_mode_hash() / preprocessed_mode_hash(): the
\* hooks give the fingerprint, or one of them fails and caching is given up.
Hash(force_direct_mode, ok, fingerprint) ==
    /\ inv.pc = "hash"
    /\ inv' = IF ok
              THEN [inv EXCEPT !.pc = "lookup", !.fingerprint = fingerprint,
                               !.mode = IF force_direct_mode THEN "direct"
                                        ELSE "preprocessed"]
              ELSE [inv EXCEPT !.pc = "bypass"]
    /\ UNCHANGED <<cache, ninv, notOrch>>

\* cache.lookup(fingerprint); a backend that is unavailable degrades to
\* direct execution.
Lookup(available) ==
    /\ inv.pc = "lookup"
    /\ inv' = IF ~available THEN [inv EXCEPT !.pc = "bypass"]
              ELSE IF lookup(cache, inv.fingerprint) = "hit"
              THEN [inv EXCEPT !.pc = "restore", !.lookup = "hit",
                               !.hit = cache[inv.fingerprint].result]
              ELSE [inv EXCEPT !.pc = "build", !.lookup = "miss"]
    /\ UNCHANGED <<cache, ninv, notOrch>>

\* restore_and_replay: the outputs are restored and the stored stdout,
\* stderr and exit code are the result.
RestoreAndReplay ==
    /\ inv.pc = "restore"
    /\ inv' = [inv EXCEPT !.pc = "done", !.result = inv.hit, !.outcome = "replayed"]
    /\ UNCHANGED <<cache, ninv, notOrch>>

\* run_real_compiler
RunRealCompiler(exit_code, std_out) ==
    /\ inv.pc = "build"
    /\ inv' = [inv EXCEPT !.pc = "built", !.built = TRUE,
                          !.run = RunResult(exit_code, std_out)]
    /\ UNCHANGED <<cache, ninv, notOrch>>

\* After the build: store the outputs of a successful compile (unless a
\* required file is missing or the backend fails), propagate the result.
StoreOrPropagate(files_present, available) ==
    /\ inv.pc = "built"
    /\ LET storing == may_store(inv.run) /\ files_present /\ available
       IN  /\ cache' = IF storing THEN store(cache, inv.fingerprint, inv.run) ELSE cache
           /\ inv' = [inv EXCEPT !.pc = "done", !.stored = storing,
                                 !.result = inv.run, !.outcome = "compiled"]
    /\ UNCHANGED <<ninv, notOrch>>

\* bypass: the real compiler is run without the cache.
DirectExecution(exit_code, std_out) ==
    /\ inv.pc = "bypass"
    /\ inv' = [inv EXCEPT !.pc = "done", !.direct = TRUE,
                          !.result = RunResult(exit_code, std_out),
                          !.outcome = "bypass"]
    /\ UNCHANGED <<cache, ninv, notOrch>>

\* The stored files of an entry are lost (eviction, a broken disk).
Corrupt(fingerprint) ==
    /\ fingerprint \in DOMAIN cache
    /\ cache[fingerprint].intact
    /\ inv.pc \in {"start", "done"}
    /\ cache' = [cache EXCEPT ![fingerprint].intact = FALSE]
    /\ UNCHANGED <<inv, ninv, notOrch>>

\* The next invocation is a new process on the same cache.
NextInvocation ==
    /\ inv.pc = "done"
    /\ ninv < MaxInvocations
    /\ inv' = NewInvocation
    /\ ninv' = ninv + 1
    /\ UNCHANGED <<cache, notOrch>>

NextOrch ==
    \/ \E claimed \in BOOLEAN : CanHandleCommand(claimed)
    \/ \E ok \in BOOLEAN : ResolveArgs(ok)
    \/ \E d \in BOOLEAN, ok \in BOOLEAN, f \in Fingerprints : Hash(d, ok, f)
    \/ \E available \in BOOLEAN : Lookup(available)
    \/ RestoreAndReplay
    \/ \E x \in ExitCodes, o \in Outputs : RunRealCompiler(x, o)
    \/ \E p \in BOOLEAN, a \in BOOLEAN : StoreOrPropagate(p, a)
    \/ \E x \in ExitCodes, o \in Outputs : DirectExecution(x, o)
    \/ \E f \in Fingerprints : Corrupt(f)
    \/ NextInvocation

----------------------------------------------------------------------------
(* File helpers (base/file_utils)                                          *)

\* file::join(a, b): b when it is absolute, else a/b.
file_join(a, b) ==
    IF b # <<>> /\ b[1] = "/" THEN b
    ELSE IF a = <<>> THEN b
    ELSE a \o <<"/">> \o b

\* The position of the last occurrence of the character c in s, 0 if none.
RECURSIVE LastIndex(_, _, _)
LastIndex(s, c, i) ==
    IF i < 1 THEN 0
    ELSE IF s[i] = c THEN i
    ELSE LastIndex(s, c, i - 1)

\* file::get_extension(path): the extension of the file part, with its dot.
get_extension(path) ==
    LET dot == LastIndex(path, ".", Len(path))
        slash == LastIndex(path, "/", Len(path))
    IN  IF dot > slash THEN SubSeq(path, dot, Len(path)) ELSE <<>>

\* file::change_extension(path, ext)
change_extension(path, ext) ==
    LET dot == LastIndex(path, ".", Len(path))
        slash == LastIndex(path, "/", Len(path))
    IN  IF dot > slash THEN SubSeq(path, 1, dot - 1) \o ext ELSE path \o ext

\* file::file_exists(path), on the disk `fs` (the set of the files there are).
file_exists(fs, path) == path \in fs

----------------------------------------------------------------------------
(* The Rust wrapper: parsing the command line (wrappers/rust_wrapper.cpp)  *)

\* The options of rustc (the keys of option_specification).
opt ==
    [dash |-> <<"-">>,
     h |-> <<"-", "h">>,
     help |-> <<"-", "-", "h", "e", "l", "p">>,
     cfg |-> <<"-", "-", "c", "f", "g">>,
     L |-> <<"-", "L">>,
     l |-> <<"-", "l">>,
     crate_type |-> <<"-", "-", "c", "r", "a", "t", "e", "-", "t", "y", "p", "e">>,
     crate_name |-> <<"-", "-", "c", "r", "a", "t", "e", "-", "n", "a", "m", "e">>,
     edition |-> <<"-", "-", "e", "d", "i", "t", "i", "o", "n">>,
     emit |-> <<"-", "-", "e", "m", "i", "t">>,
     print |-> <<"-", "-", "p", "r", "i", "n", "t">>,
     g |-> <<"-", "g">>,
     O |-> <<"-", "O">>,
     o |-> <<"-", "o">>,
     out_dir |-> <<"-", "-", "o", "u", "t", "-", "d", "i", "r">>,
     explain |-> <<"-", "-", "e", "x", "p", "l", "a", "i", "n">>,
     test |-> <<"-", "-", "t", "e", "s", "t">>,
     target |-> <<"-", "-", "t", "a", "r", "g", "e", "t">>,
     A |-> <<"-", "A">>,
     allow |-> <<"-", "-", "a", "l", "l", "o", "w">>,
     W |-> <<"-", "W">>,
     warn |-> <<"-", "-", "w", "a", "r", "n">>,
     force_warn |-> <<"-", "-", "f", "o", "r", "c", "e", "-", "w", "a", "r", "n">>,
     D |-> <<"-", "D">>,
     deny |-> <<"-", "-", "d", "e", "n", "y">>,
     F |-> <<"-", "F">>,
     forbid |-> <<"-", "-", "f", "o", "r", "b", "i", "d">>,
     cap_lints |-> <<"-", "-", "c", "a", "p", "-", "l", "i", "n", "t", "s">>,
     C |-> <<"-", "C">>,
     codegen |-> <<"-", "-", "c", "o", "d", "e", "g", "e", "n">>,
     V |-> <<"-", "V">>,
     version |-> <<"-", "-", "v", "e", "r", "s", "i", "o", "n">>,
     v |-> <<"-", "v">>,
     verbose |-> <<"-", "-", "v", "e", "r", "b", "o", "s", "e">>,
     extern |-> <<"-", "-", "e", "x", "t", "e", "r", "n">>,
     sysroot |-> <<"-", "-", "s", "y", "s", "r", "o", "o", "t">>,
     error_format |-> <<"-", "-", "e", "r", "r", "o", "r", "-", "f", "o", "r", "m", "a", "t">>,
     json |-> <<"-", "-", "j", "s", "o", "n">>,
     color |-> <<"-", "-", "c", "o", "l", "o", "r">>,
     diagnostic_width |-> <<"-", "-", "d", "i", "a", "g", "n", "o", "s", "t", "i", "c", "-", "w", "i", "d", "t", "h">>,
     remap_path_prefix |-> <<"-", "-", "r", "e", "m", "a", "p", "-", "p", "a", "t", "h", "-", "p", "r", "e", "f", "i", "x">>,
     at |-> <<"@">>]

\* option_specification: option -> (category, does it take an argument).
option_specification ==
    {[m_option |-> opt.dash, m_type |-> "UNSUPPORTED", m_has_argument |-> "NO"],
     [m_option |-> opt.h, m_type |-> "UNHANDLED", m_has_argument |-> "NO"],
     [m_option |-> opt.help, m_type |-> "UNHANDLED", m_has_argument |-> "NO"],
     [m_option |-> opt.cfg, m_type |-> "IGNORED", m_has_argument |-> "YES"],
     [m_option |-> opt.L, m_type |-> "LIBRARY_PATH", m_has_argument |-> "YES"],
     [m_option |-> opt.l, m_type |-> "LIBRARY", m_has_argument |-> "YES"],
     [m_option |-> opt.crate_type, m_type |-> "CRATE_TYPE", m_has_argument |-> "YES"],
     [m_option |-> opt.crate_name, m_type |-> "CRATE_NAME", m_has_argument |-> "YES"],
     [m_option |-> opt.edition, m_type |-> "IGNORED", m_has_argument |-> "YES"],
     [m_option |-> opt.emit, m_type |-> "EMIT", m_has_argument |-> "YES"],
     [m_option |-> opt.print, m_type |-> "UNHANDLED", m_has_argument |-> "YES"],
     [m_option |-> opt.g, m_type |-> "CODE_GEN", m_has_argument |-> "NO"],
     [m_option |-> opt.O, m_type |-> "CODE_GEN", m_has_argument |-> "NO"],
     [m_option |-> opt.o, m_type |-> "UNSUPPORTED", m_has_argument |-> "YES"],
     [m_option |-> opt.out_dir, m_type |-> "OUT_DIR", m_has_argument |-> "YES"],
     [m_option |-> opt.explain, m_type |-> "UNHANDLED", m_has_argument |-> "YES"],
     [m_option |-> opt.test, m_type |-> "UNHANDLED", m_has_argument |-> "NO"],
     [m_option |-> opt.target, m_type |-> "TARGET", m_has_argument |-> "YES"],
     [m_option |-> opt.A, m_type |-> "IGNORED", m_has_argument |-> "YES"],
     [m_option |-> opt.allow, m_type |-> "IGNORED", m_has_argument |-> "YES"],
     [m_option |-> opt.W, m_type |-> "IGNORED", m_has_argument |-> "YES"],
     [m_option |-> opt.warn, m_type |-> "IGNORED", m_has_argument |-> "YES"],
     [m_option |-> opt.force_warn, m_type |-> "IGNORED", m_has_argument |-> "YES"],
     [m_option |-> opt.D, m_type |-> "IGNORED", m_has_argument |-> "YES"],
     [m_option |-> opt.deny, m_type |-> "IGNORED", m_has_argument |-> "YES"],
     [m_option |-> opt.F, m_type |-> "IGNORED", m_has_argument |-> "YES"],
     [m_option |-> opt.forbid, m_type |-> "IGNORED", m_has_argument |-> "YES"],
     [m_option |-> opt.cap_lints, m_type |-> "IGNORED", m_has_argument |-> "YES"],
     [m_option |-> opt.C, m_type |-> "CODE_GEN", m_has_argument |-> "YES"],
     [m_option |-> opt.codegen, m_type |-> "CODE_GEN", m_has_argument |-> "YES"],
     [m_option |-> opt.V, m_type |-> "UNHANDLED", m_has_argument |-> "NO"],
     [m_option |-> opt.version, m_type |-> "UNHANDLED", m_has_argument |-> "NO"],
     [m_option |-> opt.v, m_type |-> "IGNORED", m_has_argument |-> "NO"],
     [m_option |-> opt.verbose, m_type |-> "IGNORED", m_has_argument |-> "NO"],
     [m_option |-> opt.extern, m_type |-> "EXTERN", m_has_argument |-> "YES"],
     [m_option |-> opt.sysroot, m_type |-> "UNSUPPORTED", m_has_argument |-> "YES"],
     [m_option |-> opt.error_format, m_type |-> "IGNORED", m_has_argument |-> "YES"],
     [m_option |-> opt.json, m_type |-> "IGNORED", m_has_argument |-> "YES"],
     [m_option |-> opt.color, m_type |-> "IGNORED", m_has_argument |-> "YES"],
     [m_option |-> opt.diagnostic_width, m_type |-> "IGNORED", m_has_argument |-> "YES"],
     [m_option |-> opt.remap_path_prefix, m_type |-> "UNSUPPORTED", m_has_argument |-> "YES"],
     [m_option |-> opt.at, m_type |-> "RESPONSE_FILE", m_has_argument |-> "NO"]}

\* Other texts of the wrapper.
str ==
    [native |-> <<"n", "a", "t", "i", "v", "e">>,
     all |-> <<"a", "l", "l">>,
     static |-> <<"s", "t", "a", "t", "i", "c">>,
     lib |-> <<"l", "i", "b">>,
     rlib |-> <<"r", "l", "i", "b">>,
     staticlib |-> <<"s", "t", "a", "t", "i", "c", "l", "i", "b">>,
     link |-> <<"l", "i", "n", "k">>,
     metadata |-> <<"m", "e", "t", "a", "d", "a", "t", "a">>,
     dep_info |-> <<"d", "e", "p", "-", "i", "n", "f", "o">>,
     extra_filename |-> <<"e", "x", "t", "r", "a", "-", "f", "i", "l", "e", "n", "a", "m", "e">>,
     file_names |-> <<"f", "i", "l", "e", "-", "n", "a", "m", "e", "s">>,
     incremental |-> <<"i", "n", "c", "r", "e", "m", "e", "n", "t", "a", "l">>,
     json |-> <<"j", "s", "o", "n">>,
     dot_json |-> <<".", "j", "s", "o", "n">>,
     dot_a |-> <<".", "a">>,
     dot_lib |-> <<".", "l", "i", "b">>,
     dot_d |-> <<".", "d">>,
     dot_rlib |-> <<".", "r", "l", "i", "b">>,
     dot_rmeta |-> <<".", "r", "m", "e", "t", "a">>,
     unknown_crate |-> <<"<", "u", "n", "k", "n", "o", "w", "n", " ", "c", "r", "a", "t", "e", ">">>,
     env_dep |-> <<"#", " ", "e", "n", "v", "-", "d", "e", "p">>,
     CARGO_ |-> <<"C", "A", "R", "G", "O", "_">>,
     emit_dep_info |-> <<"-", "-", "e", "m", "i", "t", "=", "d", "e", "p", "-", "i", "n", "f", "o">>,
     colon_space |-> <<":", " ">>,
     env_dep_colon |-> <<"#", " ", "e", "n", "v", "-", "d", "e", "p", ":">>]
\* The messages of the errors.
msg ==
    [missing_argument |-> <<"C", "a", "n", "'", "t", " ", "p", "a", "r", "s", "e", " ", "a", "r", "g", "u", "m", "e", "n", "t", "s", ",", " ", "m", "i", "s", "s", "i", "n", "g", " ", "a", "r", "g", "u", "m", "e", "n", "t", " ", "f", "o", "r", " ">>,
     unsupported |-> <<"U", "n", "s", "u", "p", "p", "o", "r", "t", "e", "d", " ", "c", "o", "m", "p", "i", "l", "e", "r", " ", "a", "r", "g", "u", "m", "e", "n", "t", " ">>,
     unhandled |-> <<"U", "n", "h", "a", "n", "d", "l", "e", "d", " ", "c", "o", "m", "p", "i", "l", "e", "r", " ", "a", "r", "g", "u", "m", "e", "n", "t", " ">>,
     more_than_one_emit |-> <<"C", "a", "n", "n", "o", "t", " ", "h", "a", "n", "d", "l", "e", " ", "m", "o", "r", "e", " ", "t", "h", "a", "n", " ", "o", "n", "e", " ", "-", "-", "e", "m", "i", "t">>,
     extra_filename |-> <<"C", "a", "n", "'", "t", " ", "c", "a", "c", "h", "e", " ", "e", "x", "t", "r", "a", "-", "f", "i", "l", "e", "n", "a", "m", "e">>,
     incremental |-> <<"C", "a", "n", "'", "t", " ", "c", "a", "c", "h", "e", " ", "i", "n", "c", "r", "e", "m", "e", "n", "t", "a", "l", " ", "b", "u", "i", "l", "d", "s">>,
     target |-> <<"C", "a", "n", "'", "t", " ", "c", "a", "c", "h", "e", " ", "t", "a", "r", "g", "e", "t", " ">>,
     response_file |-> <<"C", "a", "n", "n", "o", "t", " ", "h", "a", "n", "d", "l", "e", " ", "r", "e", "s", "p", "o", "n", "s", "e", " ", "f", "i", "l", "e", " ">>,
     multiple_inputs |-> <<"C", "a", "n", "n", "o", "t", " ", "h", "a", "n", "d", "l", "e", " ", "m", "u", "l", "t", "i", "p", "l", "e", " ", "i", "n", "p", "u", "t", "s", " ">>,
     input_required |-> <<"i", "n", "p", "u", "t", " ", "f", "i", "l", "e", " ", "r", "e", "q", "u", "i", "r", "e", "d", " ", "t", "o", " ", "c", "a", "c", "h", "e", " ", "c", "a", "r", "g", "o", "/", "r", "u", "s", "t", "c", " ", "c", "o", "m", "p", "i", "l", "a", "t", "i", "o", "n">>,
     emit_required |-> <<"-", "-", "e", "m", "i", "t", " ", "r", "e", "q", "u", "i", "r", "e", "d", " ", "t", "o", " ", "c", "a", "c", "h", "e", " ", "c", "a", "r", "g", "o", "/", "r", "u", "s", "t", "c", " ", "c", "o", "m", "p", "i", "l", "a", "t", "i", "o", "n">>,
     output_dir_required |-> <<"-", "-", "o", "u", "t", "p", "u", "t", "-", "d", "i", "r", " ", "r", "e", "q", "u", "i", "r", "e", "d", " ", "t", "o", " ", "c", "a", "c", "h", "e", " ", "c", "a", "r", "g", "o", "/", "r", "u", "s", "t", "c", " ", "c", "o", "m", "p", "i", "l", "a", "t", "i", "o", "n">>,
     crate_name_required |-> <<"-", "-", "c", "r", "a", "t", "e", "-", "n", "a", "m", "e", " ", "r", "e", "q", "u", "i", "r", "e", "d", " ", "t", "o", " ", "c", "a", "c", "h", "e", " ", "c", "a", "r", "g", "o", "/", "r", "u", "s", "t", "c", " ", "c", "o", "m", "p", "i", "l", "a", "t", "i", "o", "n">>,
     crate_type_required |-> <<"-", "-", "c", "r", "a", "t", "e", "-", "t", "y", "p", "e", " ", "r", "e", "q", "u", "i", "r", "e", "d", " ", "t", "o", " ", "c", "a", "c", "h", "e", " ", "c", "a", "r", "g", "o", "/", "r", "u", "s", "t", "c", " ", "c", "o", "m", "p", "i", "l", "a", "t", "i", "o", "n">>,
     failed_to_call |-> <<"F", "a", "i", "l", "e", "d", " ", "t", "o", " ", "c", "a", "l", "l", " ">>]

\* get_option_type(argument): the category of an option and whether it takes
\* an argument; anything that is not in the table is a PATH.
get_option_type(argument) ==
    IF \E spec \in option_specification : spec.m_option = argument
    THEN LET spec == CHOOSE spec \in option_specification : spec.m_option = argument
         IN  [m_type |-> spec.m_type, m_has_argument |-> spec.m_has_argument]
    ELSE [m_type |-> "PATH", m_has_argument |-> "NO"]

\* needs_argument(option_info)
needs_argument(option_info) ==
    option_info.m_has_argument = "YES" /\ option_info.m_argument = <<>>

\* \s and \S of the regular expression.
IsSpace(c) == c \in {" ", "\t", "\n"}
NoSpace(s) == \A i \in 1..Len(s) : ~IsSpace(s[i])

\* The letters of the second alternative of argument_parser.
ShortOptionLetters ==
    {"h", "L", "l", "g", "O", "o", "A", "W", "D", "F", "C", "V", "v"}

\* An option_info_t of an argument that did not match.
NoMatch(argument) ==
    [m_success |-> FALSE, m_type |-> "PATH", m_has_argument |-> "NO",
     m_option |-> argument, m_argument |-> <<>>]

\* An option_info_t of an argument that matched as option and argument.
Matched(option, argument) ==
    LET type == get_option_type(option)
    IN  [m_success |-> TRUE, m_type |-> type.m_type,
         m_has_argument |-> type.m_has_argument,
         m_option |-> option, m_argument |-> argument]

\* parse_argument(argument): std::regex_match against
\*   ^(?:(--[^\s=]*)=(\S*))|(?:(-[hLlgOoAWDFCVv])(\S*))|(-)|(?:(@)(\S+))|(\S+)$
\* The alternatives are tried in order and the whole argument has to match.
parse_argument(argument) ==
    LET eq == FirstIndex(argument, "=", 1)
        n == Len(argument)
    IN  IF argument = <<>> \/ ~NoSpace(argument) THEN NoMatch(argument)
        ELSE IF StartsWith(argument, <<"-", "-">>) /\ eq # 0
        THEN Matched(SubSeq(argument, 1, eq - 1), SubSeq(argument, eq + 1, n))
        ELSE IF n >= 2 /\ argument[1] = "-" /\ argument[2] \in ShortOptionLetters
        THEN Matched(SubSeq(argument, 1, 2), SubSeq(argument, 3, n))
        ELSE IF argument = <<"-">> THEN Matched(opt.dash, <<>>)
        ELSE IF n >= 2 /\ argument[1] = "@"
        THEN Matched(opt.at, SubSeq(argument, 2, n))
        ELSE Matched(argument, <<>>)

\* The second field of a two-field list, else the empty string
\* (argument.size() == 2 ? argument[1] : "").
SecondOfTwo(argument) == IF Len(argument) = 2 THEN argument[2] ELSE <<>>

\* argument[argument.size() - 1]
LastOf(argument) == argument[Len(argument)]

\* list += arg_1, and arg_2 when it is not empty.
AppendPair(list, arg_1, arg_2) ==
    IF arg_2 = <<>> THEN Append(list, arg_1) ELSE list \o <<arg_1, arg_2>>

\* The locals of parse_options before the loop.
InitialLocals(unresolved_arguments) ==
    [parsed_args |-> <<unresolved_arguments[1]>>,
     relevant_args |-> <<>>,
     static_library_paths |-> <<>>,
     static_library_names |-> <<>>,
     crate_type_rlib |-> FALSE,
     crate_type_static_lib |-> FALSE,
     crate_name |-> <<>>,
     emit |-> <<>>,
     extra_filename |-> <<>>,
     output_dir |-> <<>>,
     externs |-> <<>>,
     input |-> <<>>,
     errors |-> <<>>]

\* The switch on option.m_type. The result is the locals after the case, and
\* `relevant`: whether the case ends in `break` (the option goes on to the
\* relevant arguments) or in `continue`.
Continue(locals) == [locals |-> locals, relevant |-> FALSE]
Break(locals) == [locals |-> locals, relevant |-> TRUE]
Error(locals, message) ==
    Continue([locals EXCEPT !.errors = Append(@, message)])

option_case(l, option, arg_1, arg_2, cwd, fs) ==
    CASE option.m_type = "UNSUPPORTED" -> Error(l, msg.unsupported \o option.m_option)
      [] option.m_type = "UNHANDLED" -> Error(l, msg.unhandled \o option.m_option)
      [] option.m_type = "IGNORED" -> Continue(l)
      [] option.m_type = "LIBRARY_PATH" ->
            LET argument == Split(arg_2, "=")
                kind == SecondOfTwo(argument)
            IN  IF kind = <<>> \/ kind = str.native \/ kind = str.all
                THEN Continue([l EXCEPT !.static_library_paths = Append(@, LastOf(argument))])
                ELSE Continue(l)
      [] option.m_type = "LIBRARY" ->
            LET argument == Split(arg_2, "=")
                kind == SecondOfTwo(argument)
            IN  IF kind = str.static
                THEN Break([l EXCEPT !.static_library_names = Append(@, LastOf(argument))])
                ELSE Break(l)
      [] option.m_type = "CRATE_TYPE" ->
            IF l.crate_type_rlib /\ l.crate_type_static_lib THEN Break(l)
            ELSE LET crate_types == Split(arg_2, ",")
                 IN  Break([l EXCEPT
                        !.crate_type_rlib =
                            @ \/ Contains(crate_types, str.lib) \/ Contains(crate_types, str.rlib),
                        !.crate_type_static_lib =
                            @ \/ Contains(crate_types, str.staticlib)])
      [] option.m_type = "CRATE_NAME" -> Break([l EXCEPT !.crate_name = arg_2])
      [] option.m_type = "EMIT" ->
            IF Len(l.emit) # 0 THEN Error(l, msg.more_than_one_emit)
            ELSE Break([l EXCEPT !.emit = SortStrings(@ \o Split(arg_2, ","))])
      [] option.m_type = "CODE_GEN" ->
            LET argument == Split(arg_2, "=")
                second == SecondOfTwo(argument)
                l1 == IF argument[1] = str.extra_filename
                      THEN [l EXCEPT !.extra_filename = LastOf(argument)]
                      ELSE l
            IN  IF argument[1] = str.extra_filename /\ l1.extra_filename = <<>>
                THEN Error(l1, msg.extra_filename)
                ELSE IF second = str.incremental THEN Error(l1, msg.incremental)
                ELSE Break(l1)
      [] option.m_type = "OUT_DIR" -> Continue([l EXCEPT !.output_dir = arg_2])
      [] option.m_type = "TARGET" ->
            IF get_extension(arg_2) = str.json \/ file_exists(fs, arg_2 \o str.dot_json)
            THEN Error(l, msg.target \o arg_2)
            ELSE Break(l)
      [] option.m_type = "EXTERN" ->
            LET argument == Split(arg_2, "=")
                extern_lib == SecondOfTwo(argument)
            IN  IF extern_lib # <<>>
                THEN Continue([l EXCEPT !.externs = Append(@, file_join(cwd, extern_lib))])
                ELSE Continue(l)
      [] option.m_type = "RESPONSE_FILE" ->
            Error(l, msg.response_file \o option.m_option)
      [] option.m_type = "PATH" ->
            IF l.input # <<>> THEN Error(l, msg.multiple_inputs \o arg_1)
            ELSE Break([l EXCEPT !.input = arg_1])

\* Mutant: the option goes on to the relevant arguments after a `continue`
\* as well.
after_switch_always(done, arg_1, arg_2) ==
    [done.locals EXCEPT !.relevant_args = AppendPair(@, arg_1, arg_2)]

\* The end of one iteration: after a `break` the option and its argument go
\* on to the relevant arguments (lines 551-554).
after_switch(done, arg_1, arg_2) ==
    IF done.relevant
    THEN [done.locals EXCEPT !.relevant_args = AppendPair(@, arg_1, arg_2)]
    ELSE done.locals

\* The loop of parse_options over unresolved_arguments[i..], i counted from 1
\* (unresolved_arguments[1] is the program). parse_iteration is one iteration
\* for the parsed `option`; parse_option is the iteration from line 429 on,
\* with arg_2 and the index of the next iteration.
RECURSIVE parse_loop(_, _, _, _, _)
parse_option(unresolved_arguments, l, cwd, fs, option, arg_2, next) ==
    IF needs_argument(option) /\ arg_2 = <<>>
    THEN parse_loop(unresolved_arguments, next,
                    [l EXCEPT !.errors =
                        Append(@, msg.missing_argument \o option.m_option)], cwd, fs)
    ELSE parse_loop(unresolved_arguments, next,
                    after_switch(
                        option_case(
                            [l EXCEPT !.parsed_args = AppendPair(@, option.m_option, arg_2)],
                            option, option.m_option, arg_2, cwd, fs),
                        option.m_option, arg_2),
                    cwd, fs)

parse_iteration(unresolved_arguments, i, l, cwd, fs, option) ==
    IF ~option.m_success
    THEN parse_loop(unresolved_arguments, i + 1,
                    [l EXCEPT !.errors = Append(@, option.m_option)], cwd, fs)
    ELSE IF needs_argument(option) /\ i + 1 <= Len(unresolved_arguments)
    THEN parse_option(unresolved_arguments, l, cwd, fs, option,
                      unresolved_arguments[i + 1], i + 2)
    ELSE parse_option(unresolved_arguments, l, cwd, fs, option,
                      option.m_argument, i + 1)

parse_loop(unresolved_arguments, i, l, cwd, fs) ==
    IF i > Len(unresolved_arguments) THEN l
    ELSE parse_iteration(unresolved_arguments, i, l, cwd, fs,
                         parse_argument(unresolved_arguments[i]))

\* std::includes(a.begin(), a.end(), b.begin(), b.end()) on sorted lists:
\* every element of b is matched by an element of a of its own.
RECURSIVE includes(_, _)
includes(a, b) ==
    IF b = <<>> THEN TRUE
    ELSE IF a = <<>> \/ StrLess(Head(b), Head(a)) THEN FALSE
    ELSE IF ~StrLess(Head(a), Head(b)) THEN includes(Tail(a), Tail(b))
    ELSE includes(Tail(a), b)

required_emit == <<str.link, str.metadata>>
allowed_emit == <<str.dep_info, str.link, str.metadata>>

\* rust_wrapper_t::panic(message): the text of the std::runtime_error thrown.
panic(m_crate_name, message) ==
    LET header == IF m_crate_name = <<>> THEN str.unknown_crate ELSE m_crate_name
    IN  Join(<<header, message>>, str.colon_space)

\* The candidates of one static library name and one path, those that exist.
lib_paths(path, fs) ==
    LET lib_path_format == << <<str.lib, path, str.dot_a>>, <<path, str.dot_lib>>,
                              <<path, str.dot_a>> >>
    IN  SelectSeq([k \in 1..3 |-> Join(lib_path_format[k], <<>>)],
                  LAMBDA lib_path : file_exists(fs, lib_path))

\* The loops over static_library_names and static_library_paths.
RECURSIVE libs_of_paths(_, _)
libs_of_paths(paths, fs) ==
    IF paths = <<>> THEN <<>>
    ELSE lib_paths(Head(paths), fs) \o libs_of_paths(Tail(paths), fs)

RECURSIVE libs_of_names(_, _, _)
libs_of_names(names, paths, fs) ==
    IF names = <<>> THEN <<>>
    ELSE libs_of_paths(paths, fs) \o libs_of_names(Tail(names), paths, fs)

\* Mutant: the check of the crate type is left out.
verification_without_crate_type(l) ==
    IF Len(l.errors) > 0 THEN Join(l.errors, <<"\n">>)
    ELSE IF l.input = <<>> THEN msg.input_required
    ELSE IF Len(l.emit) = 0 \/ ~includes(l.emit, required_emit)
            \/ ~includes(allowed_emit, l.emit) THEN msg.emit_required
    ELSE IF l.output_dir = <<>> THEN msg.output_dir_required
    ELSE IF l.crate_name = <<>> THEN msg.crate_name_required
    ELSE <<>>

\* The first check of parse_options that fails after the loop, as the message
\* given to panic; the empty string when all pass.
verification(l) ==
    IF Len(l.errors) > 0 THEN Join(l.errors, <<"\n">>)
    ELSE IF l.input = <<>> THEN msg.input_required
    ELSE IF Len(l.emit) = 0 \/ ~includes(l.emit, required_emit)
            \/ ~includes(allowed_emit, l.emit) THEN msg.emit_required
    ELSE IF l.output_dir = <<>> THEN msg.output_dir_required
    ELSE IF l.crate_name = <<>> THEN msg.crate_name_required
    ELSE IF ~l.crate_type_rlib /\ ~l.crate_type_static_lib THEN msg.crate_type_required
    ELSE <<>>

\* The wrapper object after construction.
rust_wrapper_t(args) ==
    [pc |-> "constructed",
     m_unresolved_args |-> args,
     m_args |-> <<>>,
     m_output_dir |-> <<>>,
     m_externs |-> <<>>,
     m_static_libraries |-> <<>>,
     m_crate_name |-> <<>>,
     m_dep_info |-> <<>>,
     m_emit |-> <<>>,
     m_input |-> <<>>,
     m_relevant_args |-> <<>>,
     m_implicit_input_files |-> <<>>,
     m_relevant_env_vars |-> <<>>,
     what |-> <<>>,
     called |-> "rust_wrapper_t",
     probes |-> 0,
     build_files |-> <<>>]

\* The wrapper after an exception left one of its functions.
Thrown(w, hook, what) == [w EXCEPT !.pc = "thrown", !.what = what, !.called = hook]

\* parse_options from line 557 on, `l` being the locals after the loop. panic
\* reads the member m_crate_name, which is only assigned with the other
\* members once every check has passed.
verify_and_move(w, l, fs) ==
    IF verification(l) # <<>>
    THEN Thrown(w, "resolve_args", panic(w.m_crate_name, verification(l)))
    ELSE [w EXCEPT !.pc = "resolved",
                   !.called = "resolve_args",
                   !.m_output_dir = l.output_dir,
                   !.m_externs = SortStrings(l.externs),
                   !.m_static_libraries =
                       SortStrings(libs_of_names(l.static_library_names,
                                                 l.static_library_paths, fs)),
                   !.m_crate_name = l.crate_name,
                   !.m_dep_info =
                       IF Contains(l.emit, str.dep_info)
                       THEN Join(<<l.crate_name, l.extra_filename, str.dot_d>>, <<>>)
                       ELSE <<>>,
                   !.m_emit = l.emit,
                   !.m_input = l.input,
                   !.m_relevant_args = l.relevant_args,
                   !.m_args = l.parsed_args]

\* parse_options(unresolved_arguments) as resolve_args calls it: the wrapper
\* afterwards.
parse_options(w, cwd, fs) ==
    verify_and_move(w, parse_loop(w.m_unresolved_args, 2,
                                  InitialLocals(w.m_unresolved_args), cwd, fs), fs)

\* get_input_files(): the input and the externs.
get_input_files(w) == <<w.m_input>> \o w.m_externs

\* The std::for_each that drops "--emit", "--out-dir", "-C" and the argument
\* after each of them.
RECURSIVE filter_args(_, _)
filter_args(args, to_remove) ==
    IF args = <<>> THEN <<>>
    ELSE IF to_remove \/ Head(args) = opt.emit \/ Head(args) = opt.out_dir
            \/ Head(args) = opt.C
    THEN filter_args(Tail(args), ~to_remove)
    ELSE <<Head(args)>> \o filter_args(Tail(args), to_remove)

\* Lines 694-699: the variable that the text `NAME=VALUE` after "# env-dep"
\* gives, split at "=".
record_env_dep(vars, env_1) ==
    IF env_1[1] = envname.RUSTC_COLOR \/ env_1[1] = envname.CARGO_MAKEFLAGS
    THEN vars
    ELSE (env_1[1] :> (IF Len(env_1) > 1 THEN env_1[2] ELSE <<>>)) @@ vars

\* The inner loop over the parts of one line of the dep-info file, from the
\* second part on (std::next(parts.begin())). `past_end` is what the read of
\* *(parts_iterator + 1) gives when parts_iterator is the last part.
RECURSIVE env_dep_parts(_, _, _, _)
env_dep_parts(parts, k, vars, past_end) ==
    IF k > Len(parts) THEN vars
    ELSE IF parts[k] = str.env_dep
    THEN env_dep_parts(parts, k + 1,
            record_env_dep(vars,
                Split(IF k + 1 <= Len(parts) THEN parts[k + 1] ELSE past_end, "=")),
            past_end)
    ELSE env_dep_parts(parts, k + 1, vars, past_end)

\* The loop over the lines of the dep-info file after the first one.
RECURSIVE env_dep_lines(_, _, _, _)
env_dep_lines(lines, j, vars, past_end) ==
    IF j > Len(lines) THEN vars
    ELSE IF Len(Split(lines[j], ":")) = 0
    THEN env_dep_lines(lines, j + 1, vars, past_end)
    ELSE env_dep_lines(lines, j + 1,
                       env_dep_parts(Split(lines[j], ":"), 2, vars, past_end), past_end)

\* Whether some line makes the inner loop read past the last part.
ReadsPastEnd(lines) ==
    \E j \in 2..Len(lines) :
        LET parts == Split(lines[j], ":")
        IN  Len(parts) >= 2 /\ parts[Len(parts)] = str.env_dep

\* The loop over get_env(): the variables whose NAME=VALUE text contains
\* "CARGO_", except CARGO_MAKEFLAGS, each with the second "=" field.
cargo_env_vars(e) ==
    LET selected == {env_var \in get_env_all(e) :
                        /\ StrContains(env_var, str.CARGO_)
                        /\ Split(env_var, "=")[1] # envname.CARGO_MAKEFLAGS}
        names == {Split(env_var, "=")[1] : env_var \in selected}
    IN  [name \in names |->
            LET env_var == CHOOSE env_var \in selected : Split(env_var, "=")[1] = name
                env_1 == Split(env_var, "=")
            IN  IF Len(env_1) > 1 THEN env_1[2] ELSE <<>>]

\* The first line of the dep-info file without its first field, sorted.
implicit_inputs(line) == SortStrings(Tail(Split(line, " ")))

----------------------------------------------------------------------------
(* Bounds and inputs of the Rust wrapper model                             *)

\* The most options added to the basic command line.
MaxExtra == 2
\* The most variables defined in the environment of a build.
MaxCargoDefined == 2
\* The most lines after the first one in the dep-info file.
MaxDepLines == 1
\* The most dep-info probes of one invocation.
MaxProbes == 2

\* The words of the command lines, and the paths of files.
arg ==
    [rustc |-> <<"r", "u", "s", "t", "c">>,
     foo |-> <<"f", "o", "o">>,
     lib |-> <<"l", "i", "b">>,
     emit_link_metadata |-> <<"-", "-", "e", "m", "i", "t", "=", "l", "i", "n", "k", ",", "m", "e", "t", "a", "d", "a", "t", "a">>,
     out |-> <<"/", "o", "u", "t">>,
     src_rs |-> <<"s", "r", "c", ".", "r", "s">>,
     cfg_value |-> <<"f", "e", "a", "t", "u", "r", "e">>,
     edition |-> <<"-", "-", "e", "d", "i", "t", "i", "o", "n", "=", "2", "0", "2", "1">>,
     opt_level |-> <<"o", "p", "t", "-", "l", "e", "v", "e", "l", "=", "3">>,
     always |-> <<"a", "l", "w", "a", "y", "s">>,
     x |-> <<"/", "x">>,
     response_file |-> <<"@", "a", "r", "g", "s">>,
     lib_dir |-> <<"/", "l", "i", "b">>,
     native_lib_dir |-> <<"n", "a", "t", "i", "v", "e", "=", "/", "l", "i", "b">>,
     static_foo |-> <<"s", "t", "a", "t", "i", "c", "=", "f", "o", "o">>,
     foo_static |-> <<"f", "o", "o", "=", "s", "t", "a", "t", "i", "c">>,
     file_lib_libfoo_a |-> <<"/", "l", "i", "b", "/", "l", "i", "b", "f", "o", "o", ".", "a">>,
     file_lib_a |-> <<"/", "l", "i", "b", ".", "a">>,
     bin |-> <<"b", "i", "n">>,
     emit_unsorted |-> <<"-", "-", "e", "m", "i", "t", "=", "m", "e", "t", "a", "d", "a", "t", "a", ",", "l", "i", "n", "k", ",", "d", "e", "p", "-", "i", "n", "f", "o">>,
     emit_link |-> <<"-", "-", "e", "m", "i", "t", "=", "l", "i", "n", "k">>,
     emit_asm |-> <<"-", "-", "e", "m", "i", "t", "=", "l", "i", "n", "k", ",", "m", "e", "t", "a", "d", "a", "t", "a", ",", "a", "s", "m">>,
     other_rs |-> <<"o", "t", "h", "e", "r", ".", "r", "s">>,
     cfg_other |-> <<"d", "e", "b", "u", "g", "_", "a", "s", "s", "e", "r", "t", "i", "o", "n", "s">>,
     deny_warnings |-> <<"-", "D", "w", "a", "r", "n", "i", "n", "g", "s">>,
     extern_abs |-> <<"b", "a", "r", "=", "/", "d", "e", "p", "s", "/", "l", "i", "b", "b", "a", "r", ".", "r", "l", "i", "b">>,
     extern_rel |-> <<"f", "o", "o", "=", "d", "e", "p", "s", "/", "l", "i", "b", "f", "o", "o", ".", "r", "l", "i", "b">>,
     extern_eq |-> <<"b", "a", "z", "=", "/", "d", "e", "p", "s", "/", "a", "=", "b", "/", "l", "i", "b", "b", "a", "z", ".", "r", "l", "i", "b">>,
     extern_name |-> <<"s", "t", "d">>,
     extra_filename_abc |-> <<"e", "x", "t", "r", "a", "-", "f", "i", "l", "e", "n", "a", "m", "e", "=", "-", "a", "b", "c">>,
     names_rlib |-> <<"l", "i", "b", "f", "o", "o", ".", "r", "l", "i", "b">>,
     names_rlib_a |-> <<"l", "i", "b", "f", "o", "o", ".", "r", "l", "i", "b", "\n", "l", "i", "b", "f", "o", "o", ".", "a">>,
     names_a |-> <<"l", "i", "b", "f", "o", "o", ".", "a">>,
     names_rlib_newline |-> <<"l", "i", "b", "f", "o", "o", ".", "r", "l", "i", "b", "\n">>,
     names_rlib_rmeta |-> <<"l", "i", "b", "f", "o", "o", ".", "r", "l", "i", "b", "\n", "l", "i", "b", "f", "o", "o", ".", "r", "m", "e", "t", "a">>,
     cwd |-> <<"/", "w", "o", "r", "k">>,
     tmp_file |-> <<"/", "t", "m", "p", "/", "b", "c", ".", "d">>,
     incremental_dir |-> <<"i", "n", "c", "r", "e", "m", "e", "n", "t", "a", "l", "=", "/", "t", "m", "p", "/", "i", "n", "c">>,
     C_incremental_dir |-> <<"-", "C", "i", "n", "c", "r", "e", "m", "e", "n", "t", "a", "l", "=", "/", "t", "m", "p", "/", "i", "n", "c">>,
     link_arg_incremental |-> <<"l", "i", "n", "k", "-", "a", "r", "g", "=", "i", "n", "c", "r", "e", "m", "e", "n", "t", "a", "l">>,
     lib_bin |-> <<"l", "i", "b", ",", "b", "i", "n">>,
     dylib |-> <<"d", "y", "l", "i", "b">>,
     crate_type_cdylib_rlib |-> <<"-", "-", "c", "r", "a", "t", "e", "-", "t", "y", "p", "e", "=", "c", "d", "y", "l", "i", "b", ",", "r", "l", "i", "b">>,
     proc_macro |-> <<"p", "r", "o", "c", "-", "m", "a", "c", "r", "o">>,
     x86_64 |-> <<"x", "8", "6", "_", "6", "4", "-", "u", "n", "k", "n", "o", "w", "n", "-", "l", "i", "n", "u", "x", "-", "g", "n", "u">>,
     spec_json |-> <<"s", "p", "e", "c", ".", "j", "s", "o", "n">>,
     target_custom |-> <<"-", "-", "t", "a", "r", "g", "e", "t", "=", "c", "u", "s", "t", "o", "m">>,
     custom |-> <<"c", "u", "s", "t", "o", "m">>,
     file_custom_json |-> <<"c", "u", "s", "t", "o", "m", ".", "j", "s", "o", "n">>,
     file_spec_json_json |-> <<"s", "p", "e", "c", ".", "j", "s", "o", "n", ".", "j", "s", "o", "n">>,
     link_metadata |-> <<"l", "i", "n", "k", ",", "m", "e", "t", "a", "d", "a", "t", "a">>,
     out_dir_out |-> <<"-", "-", "o", "u", "t", "-", "d", "i", "r", "=", "/", "o", "u", "t">>,
     C_opt_level |-> <<"-", "C", "o", "p", "t", "-", "l", "e", "v", "e", "l", "=", "3">>]
\* Lines of the dep-info file.
dep ==
    [first_line |-> <<"/", "o", "u", "t", "/", "f", "o", "o", ".", "d", ":", " ", "s", "r", "c", ".", "r", "s", " ", "m", "o", "d", ".", "r", "s">>,
     FOO_bar |-> <<"#", " ", "e", "n", "v", "-", "d", "e", "p", ":", "F", "O", "O", "=", "b", "a", "r">>,
     FOO |-> <<"#", " ", "e", "n", "v", "-", "d", "e", "p", ":", "F", "O", "O">>,
     FOO_a_eq_b |-> <<"#", " ", "e", "n", "v", "-", "d", "e", "p", ":", "F", "O", "O", "=", "a", "=", "b">>,
     RUSTC_COLOR |-> <<"#", " ", "e", "n", "v", "-", "d", "e", "p", ":", "R", "U", "S", "T", "C", "_", "C", "O", "L", "O", "R", "=", "a", "l", "w", "a", "y", "s">>,
     target_line |-> <<"s", "r", "c", ".", "r", "s", ":">>,
     inner |-> <<"s", "r", "c", ".", "r", "s", ":", "#", " ", "e", "n", "v", "-", "d", "e", "p", ":", "F", "O", "O", "=", "b", "a", "r">>,
     inner_last |-> <<"s", "r", "c", ".", "r", "s", ":", "#", " ", "e", "n", "v", "-", "d", "e", "p">>,
     target_only |-> <<"/", "o", "u", "t", "/", "f", "o", "o", ".", "d", ":">>]

\* The working directory and the path of the temporary dep-info file.
get_cwd == arg.cwd
tmp_file_path == arg.tmp_file

\* A command line that parse_options accepts, without the program.
BasicOptions ==
    <<opt.crate_name, arg.foo, opt.crate_type, arg.lib, arg.emit_link_metadata,
      opt.out_dir, arg.out, arg.src_rs>>

\* Options that parse_options counts as errors.
ErrorOptions ==
    {<<opt.version>>, <<opt.V>>, <<opt.print, arg.foo>>, <<arg.response_file>>,
     <<opt.sysroot, arg.x>>, <<opt.o, arg.x>>, <<opt.dash>>}
\* Library paths and libraries.
LibraryOptions ==
    {<<opt.L, arg.lib_dir>>, <<opt.L, arg.native_lib_dir>>, <<opt.l, arg.static_foo>>,
     <<opt.l, arg.foo_static>>, <<opt.l, arg.foo>>}
\* Extern crates: with an absolute path, a relative one, a path with "=" in
\* the name of a directory, and without a path.
ExternOptions ==
    {<<opt.extern, arg.extern_abs>>, <<opt.extern, arg.extern_rel>>,
     <<opt.extern, arg.extern_eq>>, <<opt.extern, arg.extern_name>>}
\* Code generation options that name the word incremental: the option
\* incremental in its three spellings, and the word as the value of another.
IncrementalOptions ==
    {<<opt.C, arg.incremental_dir>>, <<arg.C_incremental_dir>>,
     <<opt.codegen, arg.incremental_dir>>, <<opt.C, arg.link_arg_incremental>>}
\* Crate types: supported ones, others, and lists of both.
CrateTypeOptions ==
    {<<opt.crate_type, arg.lib>>, <<opt.crate_type, str.staticlib>>,
     <<opt.crate_type, arg.bin>>, <<opt.crate_type, arg.lib_bin>>,
     <<opt.crate_type, arg.dylib>>, <<arg.crate_type_cdylib_rlib>>,
     <<opt.crate_type, arg.proc_macro>>}
\* Targets: a built-in one, a target specification file, and a name for
\* which there may be a specification file.
TargetOptions ==
    {<<opt.target, arg.x86_64>>, <<opt.target, arg.spec_json>>, <<arg.target_custom>>}
\* Options beside those the dep-info probe drops: code generation options
\* glued, in two words and in the long spelling, a flag, and a library path
\* whose directory has the name of an option.
ProbeOptions ==
    {<<opt.C, arg.opt_level>>, <<arg.C_opt_level>>, <<opt.codegen, arg.opt_level>>,
     <<opt.g>>, <<opt.L, opt.C>>}
\* Options of the other categories.
OtherOptions ==
    {<<opt.cfg, arg.cfg_value>>, <<opt.cfg, arg.cfg_other>>, <<arg.edition>>,
     <<arg.deny_warnings>>, <<opt.g>>, <<opt.O>>, <<opt.C, arg.opt_level>>,
     <<opt.v>>, <<opt.color, arg.always>>}

\* The files there may be on the disk.
Disks == {{}, {arg.file_lib_libfoo_a}, {arg.file_lib_libfoo_a, arg.file_lib_a}}
\* The target specification files there may be on the disk.
TargetDisks ==
    {{}, {arg.spec_json}, {arg.spec_json, arg.file_custom_json},
     {arg.spec_json, arg.file_spec_json_json}}

\* The sequences of at most n elements of a set.
SeqsUpTo(S, n) == UNION {[1..k -> S] : k \in 0..n}

\* The concatenation of a sequence of sequences.
RECURSIVE Flatten(_)
Flatten(ss) == IF ss = <<>> THEN <<>> ELSE Head(ss) \o Flatten(Tail(ss))

\* The command lines made of the basic one and at most MaxExtra options of a
\* pool, before or after the basic options.
CommandLines(pool) ==
    {<<arg.rustc>> \o Flatten(pre) \o BasicOptions \o Flatten(post) :
        <<pre, post>> \in {pp \in SeqsUpTo(pool, MaxExtra) \X SeqsUpTo(pool, MaxExtra) :
                              Len(pp[1]) + Len(pp[2]) <= MaxExtra}}

\* Command lines with any of the parts of the basic one missing or changed,
\* and at most one more --emit, input or -C extra-filename.
PartialCommandLines ==
    {<<arg.rustc>> \o name \o type \o emit \o out_dir \o input \o more :
        name \in {<<>>, <<opt.crate_name, arg.foo>>},
        type \in {<<>>, <<opt.crate_type, arg.lib>>, <<opt.crate_type, arg.bin>>,
                  <<opt.crate_type, str.staticlib>>},
        emit \in {<<>>, <<arg.emit_link_metadata>>, <<arg.emit_unsorted>>,
                  <<arg.emit_link>>, <<arg.emit_asm>>},
        out_dir \in {<<>>, <<opt.out_dir, arg.out>>},
        input \in {<<>>, <<arg.src_rs>>},
        more \in {<<>>, <<arg.emit_link_metadata>>, <<arg.other_rs>>,
                  <<opt.C, arg.extra_filename_abc>>}}

\* The basic command line with at most two --crate-type options of a pool
\* in the place of its own.
CrateTypeCommandLines ==
    {<<arg.rustc, opt.crate_name, arg.foo>> \o Flatten(types)
        \o <<arg.emit_link_metadata, opt.out_dir, arg.out, arg.src_rs>> :
        types \in SeqsUpTo(CrateTypeOptions, 2)}

\* Accepted command lines with --emit and --out-dir glued or in two words,
\* and at most two more options of a pool before the input.
ProbeCommandLines ==
    {<<arg.rustc, opt.crate_name, arg.foo, opt.crate_type, arg.lib>>
        \o emit \o out_dir \o Flatten(more) \o <<arg.src_rs>> :
        emit \in {<<arg.emit_link_metadata>>, <<opt.emit, arg.link_metadata>>},
        out_dir \in {<<opt.out_dir, arg.out>>, <<arg.out_dir_out>>},
        more \in SeqsUpTo(ProbeOptions, 2)}

\* The environments of a build, and the dep-info files rustc may write.
CargoNames == {envname.CARGO_PKG_NAME, envname.CARGO_MAKEFLAGS, envname.RUSTC_COLOR, envname.RUSTFLAGS}
CargoValues == {val.empty, val.a_eq_b, val.CARGO_x}
CargoEnvs ==
    UNION {[D -> CargoValues] :
           D \in {S \in SUBSET CargoNames : Cardinality(S) <= MaxCargoDefined}}
DepLines ==
    {dep.FOO_bar, dep.FOO, dep.FOO_a_eq_b, dep.RUSTC_COLOR, dep.target_line,
     dep.inner, dep.inner_last}
DepFiles ==
    {Join(<<dep.first_line>> \o ls, <<"\n">>) : ls \in SeqsUpTo(DepLines, MaxDepLines)}
\* Dep-info files that name no source file: an empty one, and one with the
\* target alone on its first line.
EmptyDepFiles == {<<>>, dep.target_only}

\* What a read past the end of the parts may give: a crash, or some text;
\* and the only choice when the dep-info file makes no such read happen.
NoRead == [crash |-> FALSE, text |-> <<>>]
PastTheEnd(text) ==
    IF ReadsPastEnd(Split(text, "\n"))
    THEN {[crash |-> TRUE, text |-> <<>>], NoRead, [crash |-> FALSE, text |-> val.junk]}
    ELSE {NoRead}

\* What the probe `rustc ... --print file-names` may return.
FileNamesResults ==
    {[return_code |-> 1, std_out |-> <<>>]}
    \cup {[return_code |-> 0, std_out |-> text] :
            text \in {arg.names_rlib, arg.names_rlib_a, arg.names_a,
                      arg.names_rlib_newline, arg.names_rlib_rmeta}}

\* The builds: a command line, the disk, the environment and the dep-info
\* file that rustc writes for the crate.
Build(args, fs, e, text) == [args |-> args, disk |-> fs, env |-> e, depfile |-> text]
Builds ==
    {Build(args, {}, <<>>, dep.first_line) :
        args \in CommandLines(ErrorOptions) \cup CommandLines(OtherOptions)
                  \cup PartialCommandLines \cup CommandLines(ExternOptions)
                  \cup CommandLines(IncrementalOptions) \cup CrateTypeCommandLines
                  \cup ProbeCommandLines}
    \cup {Build(args, fs, <<>>, dep.first_line) :
            args \in CommandLines(LibraryOptions), fs \in Disks}
    \cup {Build(args, fs, <<>>, dep.first_line) :
            args \in CommandLines(TargetOptions), fs \in TargetDisks}
    \cup {Build(<<arg.rustc>> \o BasicOptions, {}, e, text) :
            e \in CargoEnvs, text \in DepFiles \cup EmptyDepFiles}

----------------------------------------------------------------------------
(* The hooks of the Rust wrapper                                           *)

\* process_implicit_input_files_and_relevant_env_vars() from line 666 on:
\* `w` is the wrapper when the probe `ran` has returned, `lines` the lines of
\* the dep-info file.
read_dep_info(w, ran, lines, past_end, hook) ==
    IF ran.result.return_code # 0
    THEN Thrown(w, hook, panic(w.m_crate_name, msg.failed_to_call \o Join(w.m_args, <<>>)))
    ELSE IF Len(lines) = 0 THEN w
    ELSE IF ReadsPastEnd(lines) /\ past_end.crash THEN [w EXCEPT !.pc = "crashed"]
    ELSE [w EXCEPT
            !.m_implicit_input_files = implicit_inputs(lines[1]),
            !.m_relevant_env_vars =
                cargo_env_vars(ran.env) @@ env_dep_lines(lines, 2, <<>>, past_end.text)]

\* The probe of process_implicit_input_files_and_relevant_env_vars.
dep_info_probe(w, e, result) ==
    run_rustc(e, filter_args(w.m_args, FALSE) \o <<opt.o, tmp_file_path, str.emit_dep_info>>,
              result)

\* process_implicit_input_files_and_relevant_env_vars(), called by `hook`:
\* the wrapper and the environment afterwards, and the probe that ran.
process_implicit_input_files_and_relevant_env_vars(w, e, text, result, past_end, hook) ==
    IF DOMAIN w.m_relevant_env_vars # {} \/ Len(w.m_implicit_input_files) > 0
    THEN [w |-> [w EXCEPT !.called = hook], env |-> e, probe |-> NoProbe]
    ELSE [w |-> read_dep_info([w EXCEPT !.called = hook, !.probes = @ + 1],
                              dep_info_probe(w, e, result), Split(text, "\n"),
                              past_end, hook),
          env |-> dep_info_probe(w, e, result).env,
          probe |-> Probe(dep_info_probe(w, e, result))]

\* The loop of get_build_files over `files` that collects in `metadata` the
\* .rmeta file of each .rlib file.
RECURSIVE metadata_files(_, _)
metadata_files(files, metadata) ==
    IF files = <<>> THEN metadata
    ELSE IF get_extension(Head(files)) = str.dot_rlib
            /\ ~Contains(metadata, change_extension(Head(files), str.dot_rmeta))
    THEN metadata_files(Tail(files),
                        Append(metadata, change_extension(Head(files), str.dot_rmeta)))
    ELSE metadata_files(Tail(files), metadata)

\* Mutant: the dep-info file is left out.
expected_files_without_dep_info(w, files) ==
    files
    \o (IF Contains(w.m_emit, str.metadata) THEN metadata_files(files, <<>>) ELSE <<>>)

\* The files of get_build_files: those that rustc printed, the metadata
\* files, and the dep-info file.
expected_files(w, files) ==
    files
    \o (IF Contains(w.m_emit, str.metadata) THEN metadata_files(files, <<>>) ELSE <<>>)
    \o (IF Contains(w.m_emit, str.dep_info) THEN <<w.m_dep_info>> ELSE <<>>)

\* The probe of get_build_files.
file_names_probe(w, e, result) ==
    run_rustc(e, w.m_args \o <<opt.print, str.file_names>>, result)

\* get_build_files() when the probe `ran` has returned.
get_build_files(w, ran) ==
    IF ran.result.return_code # 0
    THEN Thrown(w, "get_build_files",
                panic(w.m_crate_name, msg.failed_to_call \o Join(ran.args, <<>>)))
    ELSE [w EXCEPT
            !.called = "get_build_files",
            !.build_files =
                [file \in Range(expected_files(w, Split(ran.result.std_out, "\n"))) |->
                    [path |-> file_join(w.m_output_dir, file), required |-> TRUE]]]

\* resolve_args()
RustResolveArgs ==
    /\ rust.pc = "constructed"
    /\ rust' = parse_options(rust, get_cwd, disk)
    /\ UNCHANGED <<env, scopes, probe, disk, depfile, orchVars, cpp, evar>>

\* get_relevant_arguments()
RustGetRelevantArguments ==
    /\ rust.pc = "resolved"
    /\ rust' = [rust EXCEPT !.called = "get_relevant_arguments"]
    /\ UNCHANGED <<env, scopes, probe, disk, depfile, orchVars, cpp, evar>>

\* get_input_files()
RustGetInputFiles ==
    /\ rust.pc = "resolved"
    /\ rust' = [rust EXCEPT !.called = "get_input_files"]
    /\ UNCHANGED <<env, scopes, probe, disk, depfile, orchVars, cpp, evar>>

\* get_build_files()
RustGetBuildFiles(result) ==
    /\ rust.pc = "resolved"
    /\ rust' = get_build_files(rust, file_names_probe(rust, env, result))
    /\ env' = file_names_probe(rust, env, result).env
    /\ probe' = Probe(file_names_probe(rust, env, result))
    /\ UNCHANGED <<scopes, disk, depfile, orchVars, cpp, evar>>

\* get_relevant_env_vars()
RustGetRelevantEnvVars(result, past_end) ==
    /\ rust.pc = "resolved"
    /\ rust.probes < MaxProbes
    /\ LET done == process_implicit_input_files_and_relevant_env_vars(
                       rust, env, depfile, result, past_end, "get_relevant_env_vars")
       IN  rust' = done.w /\ env' = done.env /\ probe' = done.probe
    /\ UNCHANGED <<scopes, disk, depfile, orchVars, cpp, evar>>

\* get_implicit_input_files()
RustGetImplicitInputFiles(result, past_end) ==
    /\ rust.pc = "resolved"
    /\ rust.probes < MaxProbes
    /\ LET done == process_implicit_input_files_and_relevant_env_vars(
                       rust, env, depfile, result, past_end, "get_implicit_input_files")
       IN  rust' = done.w /\ env' = done.env /\ probe' = done.probe
    /\ UNCHANGED <<scopes, disk, depfile, orchVars, cpp, evar>>

NextRust ==
    \/ RustResolveArgs
    \/ RustGetRelevantArguments
    \/ RustGetInputFiles
    \/ \E result \in ProbeResults, past_end \in PastTheEnd(depfile) :
           RustGetRelevantEnvVars(result, past_end)
    \/ \E result \in ProbeResults, past_end \in PastTheEnd(depfile) :
           RustGetImplicitInputFiles(result, past_end)

----------------------------------------------------------------------------
(* The Cppcheck wrapper (wrappers/cppcheck_wrapper.cpp)                    *)

\* The texts of the Cppcheck wrapper and of its command lines.
tok ==
    [cppcheck |-> <<"c", "p", "p", "c", "h", "e", "c", "k">>,
     usr_bin_cppcheck |-> <<"/", "u", "s", "r", "/", "b", "i", "n", "/", "c", "p", "p", "c", "h", "e", "c", "k">>,
     I |-> <<"-", "I">>,
     D |-> <<"-", "D">>,
     U |-> <<"-", "U">>,
     i |-> <<"-", "i">>,
     j |-> <<"-", "j">>,
     l |-> <<"-", "l">>,
     E |-> <<"-", "E">>,
     output_file_option |-> <<"-", "-", "o", "u", "t", "p", "u", "t", "-", "f", "i", "l", "e">>,
     output_file |-> <<"o", "u", "t", "p", "u", "t", "_", "f", "i", "l", "e">>,
     include |-> <<"i", "n", "c", "l", "u", "d", "e">>,
     I_include |-> <<"-", "I", "i", "n", "c", "l", "u", "d", "e">>,
     D_FOO_bar |-> <<"-", "D", "F", "O", "O", "=", "b", "a", "r">>,
     enable_all |-> <<"-", "-", "e", "n", "a", "b", "l", "e", "=", "a", "l", "l">>,
     src_cpp |-> <<"s", "r", "c", ".", "c", "p", "p">>,
     SRC_CPP |-> <<"S", "R", "C", ".", "C", "P", "P">>,
     output_file_out_xml |-> <<"-", "-", "o", "u", "t", "p", "u", "t", "-", "f", "i", "l", "e", "=", "o", "u", "t", ".", "x", "m", "l">>,
     output_file_b_xml |-> <<"-", "-", "o", "u", "t", "p", "u", "t", "-", "f", "i", "l", "e", "=", "b", ".", "x", "m", "l">>,
     out_xml |-> <<"o", "u", "t", ".", "x", "m", "l">>,
     b_xml |-> <<"b", ".", "x", "m", "l">>,
     q |-> <<"-", "q">>,
     dump |-> <<"-", "-", "d", "u", "m", "p">>,
     notes_txt |-> <<"n", "o", "t", "e", "s", ".", "t", "x", "t">>,
     out_1_src_cpp |-> <<"o", "u", "t", "=", "1", "/", "s", "r", "c", ".", "c", "p", "p">>,
     unsupported_argument |-> <<"U", "n", "s", "u", "p", "p", "o", "r", "t", "e", "d", " ", "a", "r", "g", "u", "m", "e", "n", "t", ":", " ">>,
     single_output_file |-> <<"O", "n", "l", "y", " ", "a", " ", "s", "i", "n", "g", "l", "e", " ", "o", "u", "t", "p", "u", "t", " ", "f", "i", "l", "e", " ", "c", "a", "n", " ", "b", "e", " ", "s", "p", "e", "c", "i", "f", "i", "e", "d", ".">>,
     preprocessing_failed |-> <<"P", "r", "e", "p", "r", "o", "c", "e", "s", "s", "i", "n", "g", " ", "c", "o", "m", "m", "a", "n", "d", " ", "w", "a", "s", " ", "u", "n", "s", "u", "c", "c", "e", "s", "s", "f", "u", "l", ".">>,
     upper |-> <<"A", "B", "C", "D", "E", "F", "G", "H", "I", "J", "K", "L", "M", "N", "O", "P", "Q", "R", "S", "T", "U", "V", "W", "X", "Y", "Z">>,
     lower |-> <<"a", "b", "c", "d", "e", "f", "g", "h", "i", "j", "k", "l", "m", "n", "o", "p", "q", "r", "s", "t", "u", "v", "w", "x", "y", "z">>]

\* lower_case(str) (base/unicode_utils), on the letters A to Z.
lower_case(s) ==
    [k \in DOMAIN s |->
        IF Contains(tok.upper, s[k]) THEN tok.lower[FirstIndex(tok.upper, s[k], 1)]
        ELSE s[k]]

\* file::get_file_part(path): the text after the last "/".
get_file_part(path) == SubSeq(path, LastIndex(path, "/", Len(path)) + 1, Len(path))

\* std::string::substr(pos, n)
substr(s, pos, n) ==
    SubSeq(s, pos + 1, IF pos + n > Len(s) THEN Len(s) ELSE pos + n)

source_exts ==
    {<<".", "c", "p", "p">>,
     <<".", "c", "x", "x">>,
     <<".", "c", "c">>,
     <<".", "c", "+", "+">>,
     <<".", "c">>,
     <<".", "i", "p", "p">>,
     <<".", "i", "x", "x">>,
     <<".", "t", "p", "p">>,
     <<".", "t", "x", "x">>}
is_source_file(a) == lower_case(get_extension(a)) \in source_exts

first_of_two ==
    {<<"-", "D">>,
     <<"-", "U">>,
     <<"-", "I">>,
     <<"-", "i">>,
     <<"-", "j">>,
     <<"-", "l">>}
is_two_part_arg(a) == a \in first_of_two

supported ==
    {<<"-", "-", "c", "h", "e", "c", "k", "-", "l", "e", "v", "e", "l">>,
     <<"-", "-", "c", "h", "e", "c", "k", "-", "l", "i", "b", "r", "a", "r", "y">>,
     <<"-", "-", "d", "i", "s", "a", "b", "l", "e">>,
     <<"-", "D">>,
     <<"-", "-", "e", "n", "a", "b", "l", "e">>,
     <<"-", "-", "e", "r", "r", "o", "r", "-", "e", "x", "i", "t", "c", "o", "d", "e">>,
     <<"-", "-", "e", "x", "i", "t", "c", "o", "d", "e", "-", "s", "u", "p", "p", "r", "e", "s", "s", "i", "o", "n", "s">>,
     <<"-", "-", "f", "i", "l", "e", "-", "f", "i", "l", "t", "e", "r">>,
     <<"-", "f">>,
     <<"-", "-", "f", "o", "r", "c", "e">>,
     <<"-", "-", "f", "s", "i", "g", "n", "e", "d", "-", "c", "h", "a", "r">>,
     <<"-", "-", "f", "u", "n", "s", "i", "g", "n", "e", "d", "-", "c", "h", "a", "r">>,
     <<"-", "I">>,
     <<"-", "i">>,
     <<"-", "-", "i", "n", "c", "o", "n", "c", "l", "u", "s", "i", "v", "e">>,
     <<"-", "-", "i", "n", "l", "i", "n", "e", "-", "s", "u", "p", "p", "r">>,
     <<"-", "-", "l", "a", "n", "g", "u", "a", "g", "e">>,
     <<"-", "-", "m", "a", "x", "-", "c", "o", "n", "f", "i", "g", "s">>,
     <<"-", "-", "m", "a", "x", "-", "c", "t", "u", "-", "d", "e", "p", "t", "h">>,
     <<"-", "-", "o", "u", "t", "p", "u", "t", "-", "f", "i", "l", "e">>,
     <<"-", "-", "p", "l", "a", "t", "f", "o", "r", "m">>,
     <<"-", "-", "p", "r", "e", "m", "i", "u", "m">>,
     <<"-", "q">>,
     <<"-", "-", "q", "u", "i", "e", "t">>,
     <<"-", "r", "p">>,
     <<"-", "-", "r", "e", "l", "a", "t", "i", "v", "e", "-", "p", "a", "t", "h", "s">>,
     <<"-", "-", "r", "u", "l", "e">>,
     <<"-", "-", "s", "h", "o", "w", "t", "i", "m", "e">>,
     <<"-", "-", "s", "t", "d">>,
     <<"-", "-", "s", "u", "p", "p", "r", "e", "s", "s">>,
     <<"-", "-", "t", "e", "m", "p", "l", "a", "t", "e">>,
     <<"-", "-", "t", "e", "m", "p", "l", "a", "t", "e", "-", "l", "o", "c", "a", "t", "i", "o", "n">>,
     <<"-", "U">>,
     <<"-", "v">>,
     <<"-", "-", "v", "e", "r", "b", "o", "s", "e">>,
     <<"-", "-", "x", "m", "l">>}
is_supported_arg(a) == a \in supported \/ is_source_file(a)

\* arg_pair_t{arg, opt, equal_separator} and arg_pair_t::get()
arg_pair_t(a, o, equal_separator) ==
    [arg |-> a, opt |-> o, equal_separator |-> equal_separator]
arg_pair_get(arg_pair) ==
    IF arg_pair.equal_separator THEN <<arg_pair.arg \o <<"=">> \o arg_pair.opt>>
    ELSE IF arg_pair.opt # <<>> THEN <<arg_pair.arg, arg_pair.opt>>
    ELSE <<arg_pair.arg>>

\* Mutant of the loop of parse_arguments: the glued form is not split.
RECURSIVE arg_pairs_without_glued(_, _)
arg_pairs_without_glued(m_args, i) ==
    IF i > Len(m_args) THEN <<>>
    ELSE IF is_two_part_arg(m_args[i]) /\ i + 1 <= Len(m_args)
    THEN <<arg_pair_t(m_args[i], m_args[i + 1], FALSE)>>
         \o arg_pairs_without_glued(m_args, i + 2)
    ELSE IF Contains(m_args[i], "=")
    THEN <<arg_pair_t(SubSeq(m_args[i], 1, FirstIndex(m_args[i], "=", 1) - 1),
                      SubSeq(m_args[i], FirstIndex(m_args[i], "=", 1) + 1, Len(m_args[i])),
                      TRUE)>>
         \o arg_pairs_without_glued(m_args, i + 1)
    ELSE <<arg_pair_t(m_args[i], <<>>, FALSE)>> \o arg_pairs_without_glued(m_args, i + 1)

\* The first loop of parse_arguments, over m_args[i..], i counted from 1
\* (m_args[1] is the program).
RECURSIVE arg_pairs(_, _)
arg_pairs(m_args, i) ==
    IF i > Len(m_args) THEN <<>>
    ELSE IF is_two_part_arg(m_args[i]) /\ i + 1 <= Len(m_args)
    THEN <<arg_pair_t(m_args[i], m_args[i + 1], FALSE)>> \o arg_pairs(m_args, i + 2)
    ELSE IF is_two_part_arg(substr(m_args[i], 0, 2))
    THEN <<arg_pair_t(substr(m_args[i], 0, 2), substr(m_args[i], 2, Len(m_args[i])), FALSE)>>
         \o arg_pairs(m_args, i + 1)
    ELSE IF Contains(m_args[i], "=")
    THEN <<arg_pair_t(SubSeq(m_args[i], 1, FirstIndex(m_args[i], "=", 1) - 1),
                      SubSeq(m_args[i], FirstIndex(m_args[i], "=", 1) + 1, Len(m_args[i])),
                      TRUE)>>
         \o arg_pairs(m_args, i + 1)
    ELSE <<arg_pair_t(m_args[i], <<>>, FALSE)>> \o arg_pairs(m_args, i + 1)

\* The wrapper after its construction (program_wrapper_t keeps the command
\* line in m_args).
cppcheck_wrapper_t(args) ==
    [pc |-> "constructed",
     m_args |-> args,
     m_arg_pairs |-> <<>>,
     called |-> "cppcheck_wrapper_t",
     what |-> <<>>,
     returned |-> <<>>,
     preprocessor_args |-> <<>>]

\* An exception leaves `hook`.
CppThrown(w, hook, what) == [w EXCEPT !.pc = "thrown", !.called = hook, !.what = what]

\* The second loop of parse_arguments: the first pair that is not supported
\* throws.
check_supported(w, unsupported) ==
    IF unsupported # <<>>
    THEN CppThrown(w, "resolve_args",
                   tok.unsupported_argument \o Join(arg_pair_get(unsupported[1]), <<" ">>))
    ELSE [w EXCEPT !.pc = "resolved", !.called = "resolve_args"]

\* parse_arguments()
parse_arguments(w) ==
    check_supported([w EXCEPT !.m_arg_pairs = arg_pairs(w.m_args, 2)],
                    SelectSeq(arg_pairs(w.m_args, 2),
                              LAMBDA arg_pair : ~is_supported_arg(arg_pair.arg)))

\* Mutant: --output-file is not dropped.
make_preprocessor_cmd_with_output_file(w) ==
    <<w.m_args[1]>>
    \o Flatten([k \in DOMAIN w.m_arg_pairs |-> arg_pair_get(w.m_arg_pairs[k])])
    \o <<tok.E>>

\* make_preprocessor_cmd()
make_preprocessor_cmd(w) ==
    <<w.m_args[1]>>
    \o Flatten([k \in DOMAIN w.m_arg_pairs |->
                  IF w.m_arg_pairs[k].arg = tok.output_file_option THEN <<>>
                  ELSE arg_pair_get(w.m_arg_pairs[k])])
    \o <<tok.E>>

\* preprocess_source(), `result` being what the preprocessor run returns.
preprocess_source(w, result) ==
    IF result.return_code # 0
    THEN CppThrown([w EXCEPT !.preprocessor_args = make_preprocessor_cmd(w)],
                   "preprocess_source", tok.preprocessing_failed)
    ELSE [w EXCEPT !.called = "preprocess_source",
                   !.preprocessor_args = make_preprocessor_cmd(w),
                   !.returned = result.std_out]

\* The loop of get_build_files over the pairs; found_output_file is never
\* assigned in the loop.
RECURSIVE output_files(_, _, _)
output_files(arg_pairs_left, files, found_output_file) ==
    IF arg_pairs_left = <<>> THEN [thrown |-> FALSE, files |-> files]
    ELSE IF Head(arg_pairs_left).arg # tok.output_file_option
    THEN output_files(Tail(arg_pairs_left), files, found_output_file)
    ELSE IF found_output_file THEN [thrown |-> TRUE, files |-> files]
    ELSE output_files(Tail(arg_pairs_left),
                      (tok.output_file :> [path |-> Head(arg_pairs_left).opt,
                                           required |-> TRUE]) @@ files,
                      found_output_file)

\* get_build_files()
cppcheck_get_build_files(w) ==
    IF output_files(w.m_arg_pairs, <<>>, FALSE).thrown
    THEN CppThrown(w, "get_build_files", tok.single_output_file)
    ELSE [w EXCEPT !.called = "get_build_files",
                   !.returned = output_files(w.m_arg_pairs, <<>>, FALSE).files]

\* Mutant: the output file name is kept.
cppcheck_get_relevant_arguments_with_name(w) ==
    <<get_file_part(w.m_args[1])>>
    \o Flatten([k \in DOMAIN w.m_arg_pairs |->
                  IF w.m_arg_pairs[k].arg \in {tok.I, tok.D, tok.U} THEN <<>>
                  ELSE arg_pair_get(w.m_arg_pairs[k])])

\* get_relevant_arguments()
cppcheck_get_relevant_arguments(w) ==
    <<get_file_part(w.m_args[1])>>
    \o Flatten([k \in DOMAIN w.m_arg_pairs |->
                  IF w.m_arg_pairs[k].arg \in {tok.I, tok.D, tok.U} THEN <<>>
                  ELSE IF w.m_arg_pairs[k].arg = tok.output_file_option
                  THEN <<w.m_arg_pairs[k].arg>>
                  ELSE arg_pair_get(w.m_arg_pairs[k])])

\* The most words after the program on a Cppcheck command line.
MaxCppArgs == 3

\* The words of the command lines, and the command lines.
CppWords ==
    {tok.I, tok.include, tok.I_include, tok.D_FOO_bar, tok.U, tok.j, tok.enable_all,
     tok.src_cpp, tok.SRC_CPP, tok.out_1_src_cpp, tok.notes_txt, tok.dump, tok.q,
     tok.output_file_out_xml, tok.output_file_b_xml}
CppCommandLines ==
    {<<program>> \o words :
        program \in {tok.cppcheck, tok.usr_bin_cppcheck},
        words \in SeqsUpTo(CppWords, MaxCppArgs)}

\* resolve_args(): the default resolver leaves m_args as it is.
CppResolveArgs ==
    /\ cpp.pc = "constructed"
    /\ cpp' = parse_arguments(cpp)
    /\ UNCHANGED <<envVars, orchVars, rustVars, evar>>

\* get_relevant_arguments()
CppGetRelevantArguments ==
    /\ cpp.pc = "resolved"
    /\ cpp' = [cpp EXCEPT !.called = "get_relevant_arguments",
                          !.returned = cppcheck_get_relevant_arguments(cpp)]
    /\ UNCHANGED <<envVars, orchVars, rustVars, evar>>

\* get_build_files()
CppGetBuildFiles ==
    /\ cpp.pc = "resolved"
    /\ cpp' = cppcheck_get_build_files(cpp)
    /\ UNCHANGED <<envVars, orchVars, rustVars, evar>>

\* preprocess_source()
CppPreprocessSource(result) ==
    /\ cpp.pc = "resolved"
    /\ cpp' = preprocess_source(cpp, result)
    /\ UNCHANGED <<envVars, orchVars, rustVars, evar>>

NextCpp ==
    \/ CppResolveArgs
    \/ CppGetRelevantArguments
    \/ CppGetBuildFiles
    \/ \E result \in ProbeResults : CppPreprocessSource(result)

----------------------------------------------------------------------------
(* env_var_t: the typed readers of a variable (base/env_utils)             *)

\* env_var_t(name): the variable as it is when the object is constructed.
\* `read` and `result` are history: the reader last called and what it gave.
NoVar == [name |-> <<>>, m_defined |-> FALSE, m_value |-> <<>>,
          read |-> "none", result |-> <<>>]
env_var_t(e, name) ==
    [name |-> name, m_defined |-> env_defined(e, name), m_value |-> get_env(e, name),
     read |-> "none", result |-> <<>>]

\* Mutant: the value is compared as it is written.
as_bool_case_sensitive(v) ==
    /\ v.m_defined
    /\ v.m_value \notin {val.empty, val.false, val.no, val.off, val.zero}

\* env_var_t::as_bool()
as_bool(v) ==
    /\ v.m_defined
    /\ lower_case(v.m_value) \notin {val.empty, val.false, val.no, val.off, val.zero}

\* env_var_t::as_string()
as_string(v) == v.m_value

\* The values that the variable of the Boolean test is given.
BoolValues ==
    {val.TRUe, val.On, val.yES, val.one, val.Hello_world, val.FaLSe, val.OfF, val.No,
     val.zero, val.empty, val.OFF, val.off, val.no, val.false, val.false_space, val.n,
     val.zero_zero}

\* env_var_t var(name)
EnvVar(name) ==
    /\ evar' = env_var_t(env, name)
    /\ UNCHANGED <<envVars, orchVars, rustVars, cpp>>

\* var.as_bool()
AsBool ==
    /\ evar.name # <<>>
    /\ evar' = [evar EXCEPT !.read = "as_bool", !.result = as_bool(evar)]
    /\ UNCHANGED <<envVars, orchVars, rustVars, cpp>>

\* var.as_string()
AsString ==
    /\ evar.name # <<>>
    /\ evar' = [evar EXCEPT !.read = "as_string", !.result = as_string(evar)]
    /\ UNCHANGED <<envVars, orchVars, rustVars, cpp>>

NextVar ==
    \/ \E value \in BoolValues : SetEnv(envname.A_BOOLEAN_VARIABLE, value)
    \/ UnsetEnv(envname.A_BOOLEAN_VARIABLE)
    \/ EnvVar(envname.A_BOOLEAN_VARIABLE)
    \/ AsBool
    \/ AsString

----------------------------------------------------------------------------
(* Specifications                                                          *)

vars == <<env, scopes, probe, cache, inv, ninv, rust, disk, depfile, cpp, evar>>

\* The parts that a specification does not exercise stay as they start.
IdleEnv == env = <<>> /\ scopes = <<>> /\ probe = NoProbe
IdleOrch == cache = <<>> /\ inv = NewInvocation /\ ninv = 1
IdleRust == rust = rust_wrapper_t(<<arg.rustc>>) /\ disk = {} /\ depfile = <<>>
IdleCpp == cpp = cppcheck_wrapper_t(<<tok.cppcheck>>)
IdleVar == evar = NoVar

\* The environment layer and run_rustc.
InitSpecEnv ==
    /\ env \in InitialEnvs /\ scopes = <<>> /\ probe = NoProbe
    /\ IdleOrch /\ IdleRust /\ IdleCpp /\ IdleVar
SpecEnv == InitSpecEnv /\ [][NextEnv]_vars

\* The orchestrator.
InitSpecOrch ==
    /\ cache = <<>> /\ inv = NewInvocation /\ ninv = 1
    /\ IdleEnv /\ IdleRust /\ IdleCpp /\ IdleVar
SpecOrch == InitSpecOrch /\ [][NextOrch]_vars

\* The Rust wrapper: one build, from the construction of the wrapper on.
InitSpecRust ==
    /\ \E build \in Builds :
           /\ rust = rust_wrapper_t(build.args)
           /\ disk = build.disk
           /\ env = build.env
           /\ depfile = build.depfile
    /\ scopes = <<>> /\ probe = NoProbe
    /\ IdleOrch /\ IdleCpp /\ IdleVar
SpecRust == InitSpecRust /\ [][NextRust]_vars

\* The Rust wrapper: one build, resolve_args and then get_build_files.
\* get_build_files reads only what resolve_args has set (m_args, m_emit,
\* m_dep_info, m_output_dir, m_crate_name), which no other hook changes, so
\* the other hooks are left out here.
NextRustBuildFiles ==
    \/ RustResolveArgs
    \/ \E result \in FileNamesResults : RustGetBuildFiles(result)
SpecRustBuildFiles == InitSpecRust /\ [][NextRustBuildFiles]_vars

\* The Cppcheck wrapper: one invocation, from the construction of the wrapper
\* on.
InitSpecCpp ==
    /\ \E args \in CppCommandLines : cpp = cppcheck_wrapper_t(args)
    /\ IdleEnv /\ IdleOrch /\ IdleRust /\ IdleVar
SpecCpp == InitSpecCpp /\ [][NextCpp]_vars

\* The typed readers: one variable that is set, unset and read.
InitSpecVar ==
    /\ IdleEnv /\ IdleVar
    /\ IdleOrch /\ IdleRust /\ IdleCpp
SpecVar == InitSpecVar /\ [][NextVar]_vars

----------------------------------------------------------------------------
(* Claims about the environment layer                                      *)

\* The innermost alive guard of each name decides the state of its variable.
Innermost(i) == \A j \in (i + 1)..Len(scopes) : scopes[j].guard.name # scopes[i].guard.name
GuardsHold ==
    \A i \in 1..Len(scopes) :
        Innermost(i) =>
            LET g == scopes[i]
            IN  IF g.guard.kind = "set"
                THEN env_defined(env, g.guard.name) /\ get_env(env, g.guard.name) = g.value
                ELSE ~env_defined(env, g.guard.name)

\* A step that leaves the innermost block puts its variable back in the state
\* it had when the block was entered, and changes no other variable.
ExitRestores ==
    Len(scopes') = Len(scopes) - 1 =>
        LET top == scopes[Len(scopes)]
        IN  /\ StateOf(env', top.guard.name) = top.prior
            /\ \A m \in (DOMAIN env \cup DOMAIN env') \ {top.guard.name} :
                   StateOf(env', m) = StateOf(env, m)

\* C1: while a scoped_set_env_t(name, value) is alive the variable is defined
\* with that value; when its scope ends the variable is back in exactly its
\* prior state (undefined, or defined with the prior value); nested scopes on
\* one name, left in reverse order, restore each enclosing state in turn.
C1_ScopedSetRestores == [][GuardsHold' /\ ExitRestores]_vars

\* C1 witness: two nested scoped_set_env_t on one name with different values,
\* the variable having been defined before the outer one.
C1_Witness ==
    /\ Len(scopes) = 2
    /\ scopes[1].guard.kind = "set" /\ scopes[2].guard.kind = "set"
    /\ scopes[1].guard.name = scopes[2].guard.name
    /\ scopes[1].value # scopes[2].value
    /\ scopes[1].prior.defined

\* C2: a rustc probe through run_rustc inherits an environment in which none
\* of the ten variables of `unset` is defined and every other variable is as
\* before; when the probe returns, whatever its exit code, the environment is
\* exactly what it was before the probe.
ProbeSanitized ==
    probe'.valid /\ probe' # probe =>
        /\ \A n \in Range(unset) : ~env_defined(probe'.seen, n)
        /\ \A m \in (DOMAIN env \cup DOMAIN probe'.seen) \ Range(unset) :
               StateOf(probe'.seen, m) = StateOf(env, m)
        /\ env' = env
C2_ProbeEnvironment == [][ProbeSanitized]_vars

\* C2 witness: a failed probe made while PWD is defined.
C2_Witness ==
    /\ probe.valid /\ probe.return_code # 0
    /\ env_defined(env, envname.PWD)

----------------------------------------------------------------------------
(* Claims about the orchestrator                                           *)

\* The cache as it is unless this invocation has stored its entry.
StoresNothing == ~inv.stored

\* C3: in one invocation the real compiler is run for the build only after
\* the lookup missed, never after a hit, which replays the stored result; an
\* entry is stored only after the real compiler succeeded; a failing compile
\* stores nothing and its exit code is the result of the invocation.
C3_LookupBuildStore ==
    /\ inv.built => inv.lookup = "miss"
    /\ inv.lookup = "hit" => ~inv.built /\ ~inv.direct
    /\ inv.pc = "done" /\ inv.lookup = "hit" =>
           /\ inv.outcome = "replayed"
           /\ inv.result = inv.hit
           /\ inv.fingerprint \in DOMAIN cache
           /\ cache[inv.fingerprint].result = inv.result
    /\ inv.stored =>
           /\ inv.built /\ inv.run.exit_code = 0
           /\ inv.fingerprint \in DOMAIN cache
           /\ cache[inv.fingerprint].result = inv.run
    /\ inv.built /\ inv.run.exit_code # 0 =>
           /\ StoresNothing
           /\ inv.pc = "done" => inv.result = inv.run

\* C3 witness: an invocation that missed, ran a failing compile and is done,
\* after an earlier invocation stored an entry.
C3_Witness ==
    /\ inv.pc = "done" /\ inv.lookup = "miss" /\ inv.built
    /\ inv.run.exit_code # 0
    /\ cache # <<>>

----------------------------------------------------------------------------
(* Claims about the Rust wrapper                                           *)

\* The options of a command line as the loop of parse_options reads them:
\* each with its category, its text and its argument.
RECURSIVE parsed_options(_, _)
parsed_options(unresolved_arguments, i) ==
    IF i > Len(unresolved_arguments) THEN <<>>
    ELSE LET option == parse_argument(unresolved_arguments[i])
             takes_next == needs_argument(option) /\ i + 1 <= Len(unresolved_arguments)
             arg_2 == IF takes_next THEN unresolved_arguments[i + 1]
                      ELSE option.m_argument
         IN  <<[m_success |-> option.m_success, m_type |-> option.m_type,
                arg_1 |-> option.m_option, arg_2 |-> arg_2,
                words |-> SubSeq(unresolved_arguments, i,
                                 IF takes_next THEN i + 1 ELSE i)]>>
             \o parsed_options(unresolved_arguments, IF takes_next THEN i + 2 ELSE i + 1)

\* The categories of the options of the command line of the build.
OptionTypes ==
    {o.m_type : o \in Range(parsed_options(rust.m_unresolved_args, 2))}

\* resolve_args has run, and ended by an exception or by a return.
Rejected == rust.pc = "thrown" /\ rust.called = "resolve_args"
Accepted == rust.pc = "resolved"
Parsed == Rejected \/ Accepted

\* C4: an invocation with an UNHANDLED option or a response file (and no
\* UNSUPPORTED one) does not end in an error: resolve_args raises nothing for
\* it; an invocation with an UNSUPPORTED option ends in the error that names
\* the unsupported argument.
C4_UnhandledIsNotAnError ==
    Parsed =>
        /\ ( /\ OptionTypes \cap {"UNHANDLED", "RESPONSE_FILE"} # {}
             /\ "UNSUPPORTED" \notin OptionTypes ) => ~Rejected
        /\ "UNSUPPORTED" \in OptionTypes =>
               Rejected /\ StrContains(rust.what, msg.unsupported)

\* C5: when parse_options rejects a command line whose first option is
\* --crate-name NAME (so that it has been seen before any offending option),
\* the message begins with NAME followed by ": ".
C5_ErrorPrefixedWithCrateName ==
    Rejected /\ Len(rust.m_unresolved_args) >= 3
             /\ rust.m_unresolved_args[2] = opt.crate_name =>
        StartsWith(rust.what, rust.m_unresolved_args[3] \o str.colon_space)

\* The lines of the dep-info file, and the name and the value that a line
\* "# env-dep:NAME=VALUE" or "# env-dep:NAME" gives.
DepFileLines == Split(depfile, "\n")
IsEnvDepLine(line) == StartsWith(line, str.env_dep_colon)
EnvDepText(line) == SubSeq(line, Len(str.env_dep_colon) + 1, Len(line))
EnvDepName(line) ==
    LET text == EnvDepText(line)
        eq == FirstIndex(text, "=", 1)
    IN  IF eq = 0 THEN text ELSE SubSeq(text, 1, eq - 1)
EnvDepValue(line) ==
    LET text == EnvDepText(line)
        eq == FirstIndex(text, "=", 1)
    IN  IF eq = 0 THEN <<>> ELSE SubSeq(text, eq + 1, Len(text))

\* The dep-info probe has run and its output has been read.
DepInfoRead == rust.pc = "resolved" /\ rust.probes > 0

\* C6: every line after the first of the dep-info file that is
\* "# env-dep:NAME=VALUE" or "# env-dep:NAME", NAME not being RUSTC_COLOR or
\* CARGO_MAKEFLAGS, gives the key NAME in the relevant environment variables,
\* with the whole text after the first "=" (or the empty string) as value.
C6_EnvDepLinesRecorded ==
    DepInfoRead =>
        \A j \in 2..Len(DepFileLines) :
            LET line == DepFileLines[j]
            IN  ( /\ IsEnvDepLine(line)
                  /\ EnvDepName(line) \notin {envname.RUSTC_COLOR, envname.CARGO_MAKEFLAGS} ) =>
                    /\ EnvDepName(line) \in DOMAIN rust.m_relevant_env_vars
                    /\ rust.m_relevant_env_vars[EnvDepName(line)] = EnvDepValue(line)

\* The names that the env-dep text of some line of the dep-info file gives,
\* wherever in the line that text is.
EnvDepNamesAnywhere ==
    {EnvDepName(SubSeq(line, k, Len(line))) :
        <<line, k>> \in {lk \in Range(DepFileLines) \X (1..Len(depfile)) :
                            /\ lk[2] <= Len(lk[1])
                            /\ IsEnvDepLine(SubSeq(lk[1], lk[2], Len(lk[1])))}}

\* C7: every key of the relevant environment variables is a NAME of an
\* env-dep line or the name of a variable of the environment that begins with
\* CARGO_, and is neither CARGO_MAKEFLAGS nor RUSTC_COLOR (for a dep-info
\* file in which every env-dep text is followed by its NAME).
C7_OnlyDeclaredVariables ==
    DepInfoRead /\ ~ReadsPastEnd(DepFileLines) =>
        \A key \in DOMAIN rust.m_relevant_env_vars :
            /\ key \notin {envname.CARGO_MAKEFLAGS, envname.RUSTC_COLOR}
            /\ \/ key \in EnvDepNamesAnywhere
               \/ key \in DOMAIN env /\ StartsWith(key, str.CARGO_)

\* C8: every variable of the environment whose name begins with CARGO_,
\* except CARGO_MAKEFLAGS, is a key of the relevant environment variables
\* with its complete value.
C8_CargoVariablesComplete ==
    DepInfoRead =>
        \A name \in DOMAIN env :
            StartsWith(name, str.CARGO_) /\ name # envname.CARGO_MAKEFLAGS =>
                /\ name \in DOMAIN rust.m_relevant_env_vars
                /\ rust.m_relevant_env_vars[name] = get_env(env, name)

\* The values of the option `option` in the command line of the build, each
\* as its KIND (empty when none is given) and its text after "KIND=".
KindValues(option) ==
    {[kind |-> IF FirstIndex(o.arg_2, "=", 1) = 0 THEN <<>>
               ELSE SubSeq(o.arg_2, 1, FirstIndex(o.arg_2, "=", 1) - 1),
      text |-> SubSeq(o.arg_2, FirstIndex(o.arg_2, "=", 1) + 1, Len(o.arg_2))] :
        o \in {p \in Range(parsed_options(rust.m_unresolved_args, 2)) :
                  p.arg_1 = option}}

\* The three candidate files of the library `name` under the path `path`.
StaticLibraryCandidates(path, name) ==
    {file_join(path, str.lib \o name \o str.dot_a),
     file_join(path, name \o str.dot_lib),
     file_join(path, name \o str.dot_a)}

\* C9: for every -l static=NAME and every -L path P of kind absent, native
\* or all, each of P/libNAME.a, P/NAME.lib and P/NAME.a that exists is in
\* m_static_libraries.
C9_StaticLibrariesFound ==
    Accepted =>
        \A l \in KindValues(opt.l), L \in KindValues(opt.L) :
            l.kind = str.static /\ L.kind \in {<<>>, str.native, str.all} =>
                \A file \in StaticLibraryCandidates(L.text, l.text) :
                    file_exists(disk, file) => Contains(rust.m_static_libraries, file)

\* The options the relevant arguments may leave out: the output directory,
\* verbosity, colour and diagnostic format, lint levels, library paths and
\* externs.
LeftOutOptions ==
    {opt.out_dir, opt.v, opt.verbose, opt.color, opt.error_format, opt.json,
     opt.diagnostic_width, opt.A, opt.allow, opt.W, opt.warn, opt.force_warn,
     opt.D, opt.deny, opt.F, opt.forbid, opt.cap_lints, opt.L, opt.extern}

\* C10: every option of an accepted command line, with its value, is in the
\* relevant arguments, unless it is one of the options that may be left out.
C10_OptionsAreRelevant ==
    Accepted =>
        \A o \in Range(parsed_options(rust.m_unresolved_args, 2)) :
            o.arg_1 \notin LeftOutOptions =>
                /\ Contains(rust.m_relevant_args, o.arg_1)
                /\ o.arg_2 # <<>> => Contains(rust.m_relevant_args, o.arg_2)

\* The options of the command line of the build that are of the category
\* `type`, in their order.
OptionsOfType(type) ==
    SelectSeq(parsed_options(rust.m_unresolved_args, 2),
              LAMBDA o : o.m_success /\ o.m_type = type)

\* The fields of the comma-separated value of an option, as a set.
ListedIn(o) == Range(Split(o.arg_2, ","))

\* What a command line needs for caching: one input, one --emit that lists
\* link and metadata and nothing but link, metadata and dep-info, an
\* --out-dir, a --crate-name, and a --crate-type that lists lib, rlib or
\* staticlib.
MeetsRequirements ==
    /\ Len(OptionsOfType("PATH")) = 1
    /\ Len(OptionsOfType("EMIT")) = 1
    /\ {str.link, str.metadata} \subseteq ListedIn(OptionsOfType("EMIT")[1])
    /\ ListedIn(OptionsOfType("EMIT")[1]) \subseteq {str.link, str.metadata, str.dep_info}
    /\ OptionsOfType("OUT_DIR") # <<>>
    /\ OptionsOfType("CRATE_NAME") # <<>>
    /\ \E o \in Range(OptionsOfType("CRATE_TYPE")) :
           ListedIn(o) \cap {str.lib, str.rlib, str.staticlib} # {}

\* C11: parse_options succeeds only for a command line with exactly one
\* input, exactly one --emit whose list includes link and metadata and is
\* within link, metadata and dep-info, an --out-dir, a --crate-name and a
\* --crate-type giving rlib or staticlib; any other command line is rejected;
\* on success m_emit is the emit list in sorted order.
C11_AcceptedMeetsRequirements ==
    /\ Accepted =>
           /\ MeetsRequirements
           /\ rust.m_emit = SortStrings(Split(OptionsOfType("EMIT")[1].arg_2, ","))
    /\ Parsed /\ ~MeetsRequirements => Rejected

\* C11 witness: an accepted command line whose --emit list is not in sorted
\* order and includes dep-info.
C11_Witness ==
    /\ Accepted
    /\ Contains(rust.m_unresolved_args, arg.emit_unsorted)
    /\ rust.m_emit = <<str.dep_info, str.link, str.metadata>>

\* The command line of the build without its options of the category `type`
\* and their values.
WithoutOptions(type) ==
    <<rust.m_unresolved_args[1]>>
    \o Flatten([k \in DOMAIN parsed_options(rust.m_unresolved_args, 2) |->
                  IF parsed_options(rust.m_unresolved_args, 2)[k].m_type = type
                  THEN <<>>
                  ELSE parsed_options(rust.m_unresolved_args, 2)[k].words])

\* What the wrapper gives the cache, of an invocation w after resolve_args:
\* relevant arguments, input files, static libraries, emit, crate name and
\* dep-info file.
Fingerprinted(w) ==
    <<w.pc, w.m_relevant_args, get_input_files(w), w.m_static_libraries,
      w.m_emit, w.m_crate_name, w.m_dep_info>>

\* C12: an accepted command line gives the same relevant arguments, input
\* files, static libraries, emit, crate name and dep-info file as the command
\* line without its IGNORED options (so two accepted command lines that
\* differ only in IGNORED options give the same), and no IGNORED option or
\* value of one is among the relevant arguments.
C12_IgnoredOptionsDoNotMatter ==
    Accepted =>
        /\ Fingerprinted(rust)
             = Fingerprinted(parse_options(rust_wrapper_t(WithoutOptions("IGNORED")), get_cwd, disk))
        /\ \A o \in Range(parsed_options(rust.m_unresolved_args, 2)) :
               o.m_type = "IGNORED" =>
                   \A word \in (Range(o.words) \cup {o.arg_1, o.arg_2}) \ {<<>>} :
                       ~Contains(rust.m_relevant_args, word)

\* C12 witness: an accepted command line with an IGNORED option and its
\* value before the other options and another after them.
C12_Witness ==
    /\ Accepted
    /\ rust.m_unresolved_args[2] = opt.cfg
    /\ LastOf(rust.m_unresolved_args) = arg.always
    /\ WithoutOptions("IGNORED") = <<arg.rustc>> \o BasicOptions

\* The path that the value NAME=PATH of an --extern names: the text after the
\* first "=", from the working directory when it is relative.
ExternPath(value) ==
    file_join(get_cwd, SubSeq(value, FirstIndex(value, "=", 1) + 1, Len(value)))

\* The values of the --extern options of the build that give a path.
ExternValues ==
    SelectSeq([k \in DOMAIN OptionsOfType("EXTERN") |-> OptionsOfType("EXTERN")[k].arg_2],
              LAMBDA value : Contains(value, "="))

\* C13: get_input_files returns the input followed by the paths of all the
\* --extern NAME=PATH of the command line, in sorted order, a relative path
\* joined to the working directory; the externs do not change the relevant
\* arguments.
C13_ExternsAreInputFiles ==
    rust.pc = "resolved" /\ rust.called = "get_input_files" =>
        /\ \A value \in Range(ExternValues) :
               Contains(get_input_files(rust), ExternPath(value))
        /\ get_input_files(rust)
             = <<rust.m_input>>
               \o SortStrings([k \in DOMAIN ExternValues |-> ExternPath(ExternValues[k])])
        /\ rust.m_relevant_args
             = parse_options(rust_wrapper_t(WithoutOptions("EXTERN")),
                             get_cwd, disk).m_relevant_args

\* The text `ext` at the end of the file name.
EndsWith(file, ext) ==
    Len(file) >= Len(ext) /\ SubSeq(file, Len(file) - Len(ext) + 1, Len(file)) = ext

\* The file names that the file-names probe printed.
PrintedFiles == Range(Split(probe.std_out, "\n"))

\* The .rmeta siblings of the printed .rlib files.
MetadataFiles ==
    {SubSeq(file, 1, Len(file) - Len(str.dot_rlib)) \o str.dot_rmeta :
        file \in {f \in PrintedFiles : EndsWith(f, str.dot_rlib)}}

\* CRATE_NAME + extra-filename + ".d", from the command line of the build.
DepInfoFile ==
    LastOf(OptionsOfType("CRATE_NAME")).arg_2
    \o Flatten([k \in DOMAIN OptionsOfType("CODE_GEN") |->
                  IF StartsWith(OptionsOfType("CODE_GEN")[k].arg_2, str.extra_filename \o <<"=">>)
                  THEN SubSeq(OptionsOfType("CODE_GEN")[k].arg_2,
                              Len(str.extra_filename) + 2,
                              Len(OptionsOfType("CODE_GEN")[k].arg_2))
                  ELSE <<>>])
    \o str.dot_d

\* get_build_files has been called: it returned a map, or it failed.
BuildFilesReturned == rust.pc = "resolved" /\ rust.called = "get_build_files"
BuildFilesFailed == rust.pc = "thrown" /\ rust.called = "get_build_files"

\* C14: the map that get_build_files returns has exactly the printed file
\* names, the .rmeta sibling of each printed .rlib when metadata is in --emit,
\* and CRATE_NAME + extra-filename + ".d" when dep-info is in --emit, each
\* required and at OUT_DIR joined with the name; when the probe exits
\* non-zero the call fails.
C14_BuildFiles ==
    /\ BuildFilesReturned =>
           /\ probe.return_code = 0
           /\ DOMAIN rust.build_files
                = PrintedFiles
                  \cup (IF str.metadata \in ListedIn(OptionsOfType("EMIT")[1])
                        THEN MetadataFiles ELSE {})
                  \cup (IF str.dep_info \in ListedIn(OptionsOfType("EMIT")[1])
                        THEN {DepInfoFile} ELSE {})
           /\ \A file \in DOMAIN rust.build_files :
                  rust.build_files[file]
                    = [path |-> file_join(LastOf(OptionsOfType("OUT_DIR")).arg_2, file),
                       required |-> TRUE]
    /\ probe.valid /\ LastOf(probe.args) = str.file_names /\ probe.return_code # 0
           => BuildFilesFailed

\* C14 witness: a build with dep-info in --emit and an extra-filename, for
\* which rustc printed an .rlib and an .a file.
C14_Witness ==
    /\ BuildFilesReturned
    /\ probe.std_out = arg.names_rlib_a
    /\ str.dep_info \in ListedIn(OptionsOfType("EMIT")[1])
    /\ Contains(rust.m_unresolved_args, arg.extra_filename_abc)
    /\ Cardinality(DOMAIN rust.build_files) = 4

----------------------------------------------------------------------------
(* Claims about set_env and unset_env                                      *)

\* The names that may be defined.
AllNames == InitNames \cup TestNames

\* The entries of get_env() for `name` in the environment e.
EntriesOf(e, name) == {entry \in get_env_all(e) : StartsWith(entry, name \o <<"=">>)}

\* What a call on `name` leaves as it was: every other variable.
OthersKept(name) ==
    \A other \in AllNames \ {name} : StateOf(env', other) = StateOf(env, other)

\* C20: a set_env(name, value) leaves the name defined with that value (the
\* empty string too) and with the one entry NAME=VALUE in get_env(); an
\* unset_env(name) leaves it undefined and without an entry, and changes
\* nothing when the name was undefined; neither touches another name. So
\* after any sequence of calls each name is as its last call left it.
C20_SetAndUnset ==
    [][
        /\ \A name \in TestNames, value \in Values :
              SetEnv(name, value) =>
                  /\ env_defined(env', name)
                  /\ get_env(env', name) = value
                  /\ EntriesOf(env', name) = {name \o <<"=">> \o value}
                  /\ OthersKept(name)
        /\ \A name \in TestNames :
              UnsetEnv(name) =>
                  /\ ~env_defined(env', name)
                  /\ EntriesOf(env', name) = {}
                  /\ OthersKept(name)
                  /\ ~env_defined(env, name) => env' = env
    ]_vars

\* C20 witness: a name set to the empty string after it was unset or never
\* defined, another name undefined.
C20_Witness ==
    /\ scopes = <<>>
    /\ env_defined(env, envname.A_VARIABLE)
    /\ get_env(env, envname.A_VARIABLE) = val.empty
    /\ EntriesOf(env, envname.A_VARIABLE) = {envname.A_VARIABLE \o <<"=">>}
    /\ ~env_defined(env, envname.PWD)

\* One text equals another when the case of the letters is left aside.
EqualIgnoringCase(a, b) ==
    /\ Len(a) = Len(b)
    /\ \A k \in DOMAIN a :
           \/ a[k] = b[k]
           \/ \E j \in DOMAIN tok.upper : {a[k], b[k]} = {tok.upper[j], tok.lower[j]}

\* C21: as_bool() is false exactly when the variable is undefined, empty, or
\* equal ignoring case to "0", "off", "no" or "false"; for every other
\* defined value it is true.
C21_AsBool ==
    evar.read = "as_bool" =>
        (evar.result = FALSE
            <=> \/ ~evar.m_defined
                \/ evar.m_value = <<>>
                \/ \E falsy \in {val.zero, val.off, val.no, val.false} :
                       EqualIgnoringCase(evar.m_value, falsy))

\* C21 witness: a value that is falsy only when the case is left aside, read
\* after the variable was set.
C21_Witness ==
    /\ evar.read = "as_bool"
    /\ evar.m_defined /\ evar.m_value = val.OfF
    /\ evar.result = FALSE
    /\ get_env(env, envname.A_BOOLEAN_VARIABLE) = val.OfF

----------------------------------------------------------------------------
(* Claims about the Cppcheck wrapper                                       *)

\* The pairs of a command line by the four rules, tried in turn for the word
\* at i: a two-part option and the next word; a word that begins with a
\* two-part option; a word with "="; any other word.
RECURSIVE PairsByTheRules(_, _)
PairsByTheRules(argv, i) ==
    IF i > Len(argv) THEN <<>>
    ELSE IF argv[i] \in {tok.D, tok.U, tok.I, tok.i, tok.j, tok.l} /\ i < Len(argv)
    THEN <<[arg |-> argv[i], opt |-> argv[i + 1], equal_separator |-> FALSE]>>
         \o PairsByTheRules(argv, i + 2)
    ELSE IF \E option \in {tok.D, tok.U, tok.I, tok.i, tok.j, tok.l} :
                StartsWith(argv[i], option)
    THEN <<[arg |-> SubSeq(argv[i], 1, 2), opt |-> SubSeq(argv[i], 3, Len(argv[i])),
            equal_separator |-> FALSE]>>
         \o PairsByTheRules(argv, i + 1)
    ELSE IF \E k \in DOMAIN argv[i] : argv[i][k] = "="
    THEN <<[arg |-> SubSeq(argv[i], 1, (CHOOSE k \in DOMAIN argv[i] :
                                          /\ argv[i][k] = "="
                                          /\ \A j \in 1..(k - 1) : argv[i][j] # "=") - 1),
            opt |-> SubSeq(argv[i], (CHOOSE k \in DOMAIN argv[i] :
                                       /\ argv[i][k] = "="
                                       /\ \A j \in 1..(k - 1) : argv[i][j] # "=") + 1,
                           Len(argv[i])),
            equal_separator |-> TRUE]>>
         \o PairsByTheRules(argv, i + 1)
    ELSE <<[arg |-> argv[i], opt |-> <<>>, equal_separator |-> FALSE]>>
         \o PairsByTheRules(argv, i + 1)

\* resolve_args has run, and ended by an exception or by a return.
CppRejected == cpp.pc = "thrown" /\ cpp.called = "resolve_args"
CppParsed == cpp.pc # "constructed"

\* C18: parse_arguments gives the pairs of the four rules, in order; so
\* "-I include" and "-Iinclude" give the same pair.
C18_PairsByTheRules ==
    CppParsed =>
        /\ cpp.m_arg_pairs = PairsByTheRules(cpp.m_args, 2)
        /\ Tail(cpp.m_args) \in {<<tok.I, tok.include>>, <<tok.I_include>>}
               => cpp.m_arg_pairs
                    = <<[arg |-> tok.I, opt |-> tok.include, equal_separator |-> FALSE]>>

\* C18 witness: a command line with the glued and the separated form, and
\* the same pair for each.
C18_Witness ==
    /\ cpp.pc = "resolved"
    /\ Tail(cpp.m_args) = <<tok.I_include, tok.I, tok.include>>
    /\ Len(cpp.m_arg_pairs) = 2
    /\ cpp.m_arg_pairs[1] = cpp.m_arg_pairs[2]

\* The --output-file options of the command line, and its other arguments.
OutputFileOptions ==
    SelectSeq(PairsByTheRules(cpp.m_args, 2),
              LAMBDA arg_pair : arg_pair.arg = tok.output_file_option)
OtherArguments ==
    SelectSeq(PairsByTheRules(cpp.m_args, 2),
              LAMBDA arg_pair : arg_pair.arg # tok.output_file_option)

\* The command line without its -I, -D and -U options and their values, and
\* with one and the same file name for --output-file.
RECURSIVE WithoutPreprocessorOptions(_, _)
WithoutPreprocessorOptions(argv, i) ==
    IF i > Len(argv) THEN <<>>
    ELSE IF argv[i] \in {tok.I, tok.D, tok.U} /\ i < Len(argv)
    THEN WithoutPreprocessorOptions(argv, i + 2)
    ELSE IF \E option \in {tok.I, tok.D, tok.U} : StartsWith(argv[i], option)
    THEN WithoutPreprocessorOptions(argv, i + 1)
    ELSE IF StartsWith(argv[i], tok.output_file_option \o <<"=">>)
    THEN <<tok.output_file_out_xml>> \o WithoutPreprocessorOptions(argv, i + 1)
    ELSE <<argv[i]>> \o WithoutPreprocessorOptions(argv, i + 1)

\* get_relevant_arguments has returned.
RelevantArgumentsReturned ==
    cpp.pc = "resolved" /\ cpp.called = "get_relevant_arguments"

\* C15: the relevant arguments are those of the command line without its -I,
\* -D and -U options and with another output file name (so two command lines
\* that differ only in these have the same); none of them is a -I, -D or -U
\* option, a value of one, or the output file name; and --output-file is
\* among them exactly when the option was given.
C15_RelevantArguments ==
    RelevantArgumentsReturned =>
        /\ cpp.returned
             = cppcheck_get_relevant_arguments(
                   parse_arguments(cppcheck_wrapper_t(
                       <<cpp.m_args[1]>> \o WithoutPreprocessorOptions(cpp.m_args, 2))))
        /\ \A word \in Range(cpp.returned) :
               /\ \A option \in {tok.I, tok.D, tok.U} : ~StartsWith(word, option)
               /\ word \notin {tok.out_xml, tok.b_xml,
                                tok.output_file_out_xml, tok.output_file_b_xml}
        /\ \A arg_pair \in Range(PairsByTheRules(cpp.m_args, 2)) :
               arg_pair.arg \in {tok.I, tok.D, tok.U} /\ Contains(cpp.returned, arg_pair.opt)
                   => Contains(WithoutPreprocessorOptions(cpp.m_args, 2), arg_pair.opt)
        /\ Contains(cpp.returned, tok.output_file_option) <=> OutputFileOptions # <<>>

\* C15 witness: a glued -I and an output file other than out.xml.
C15_Witness ==
    /\ RelevantArgumentsReturned
    /\ cpp.m_args = <<tok.usr_bin_cppcheck, tok.I_include, tok.src_cpp,
                      tok.output_file_b_xml>>
    /\ cpp.returned = <<tok.cppcheck, tok.src_cpp, tok.output_file_option>>

\* C16: get_build_files returns an empty map without --output-file, the one
\* entry output_file -> (its argument, required) with one, and fails with
\* "Only a single output file can be specified." with more than one.
C16_SingleOutputFile ==
    cpp.called = "get_build_files" =>
        CASE Len(OutputFileOptions) = 0 -> cpp.pc = "resolved" /\ cpp.returned = <<>>
          [] Len(OutputFileOptions) = 1 ->
                /\ cpp.pc = "resolved"
                /\ cpp.returned
                     = (tok.output_file :> [path |-> OutputFileOptions[1].opt,
                                            required |-> TRUE])
          [] OTHER -> cpp.pc = "thrown" /\ cpp.what = tok.single_output_file

\* The words that an argument of the command line is emitted as: a two-part
\* option as option and value, an "=" option as option=value.
EmittedAs(arg_pair) ==
    IF arg_pair.equal_separator THEN <<arg_pair.arg \o <<"=">> \o arg_pair.opt>>
    ELSE IF arg_pair.opt = <<>> THEN <<arg_pair.arg>>
    ELSE <<arg_pair.arg, arg_pair.opt>>

\* C17: the preprocessor command is argv[0], every argument but
\* --output-file in its order, with its option and its value, and a final
\* -E; --output-file and its file name are not in it (unless as the value of
\* another argument).
C17_PreprocessorCommand ==
    cpp.called = "preprocess_source" =>
        /\ cpp.preprocessor_args
             = <<cpp.m_args[1]>>
               \o Flatten([k \in DOMAIN OtherArguments |-> EmittedAs(OtherArguments[k])])
               \o <<tok.E>>
        /\ \A arg_pair \in Range(OutputFileOptions) :
               \A word \in {arg_pair.arg, arg_pair.opt} \cup Range(EmittedAs(arg_pair)) :
                   Contains(cpp.preprocessor_args, word)
                       => \E other \in Range(OtherArguments) : word \in Range(EmittedAs(other))

\* C17 witness: the command of a command line with --output-file between a
\* glued -D and a source file.
C17_Witness ==
    /\ cpp.called = "preprocess_source"
    /\ Tail(cpp.m_args) = <<tok.D_FOO_bar, tok.output_file_out_xml, tok.src_cpp>>
    /\ Len(cpp.preprocessor_args) = 5
    /\ cpp.preprocessor_args[2] = tok.D
    /\ cpp.preprocessor_args[5] = tok.E

\* A word of the command line that is not allowed: an option that is not on
\* the allow-list, or another word that is not the name of a source file.
NotAllowed(arg_pair) ==
    IF arg_pair.arg[1] = "-" THEN arg_pair.arg \notin supported
    ELSE \A ext \in source_exts :
             ~EndsWith(lower_case(Join(<<arg_pair.arg, arg_pair.opt>>,
                                       IF arg_pair.equal_separator THEN <<"=">> ELSE <<>>)),
                       ext)

\* C19: resolve_args fails with "Unsupported argument" exactly when the
\* command line has an option that is not on the allow-list or another word
\* that is not a source file.
C19_UnsupportedExactly ==
    CppParsed =>
        ((CppRejected /\ StartsWith(cpp.what, tok.unsupported_argument))
            <=> \E arg_pair \in Range(PairsByTheRules(cpp.m_args, 2)) : NotAllowed(arg_pair))

----------------------------------------------------------------------------
(* Claims about the options parse_options refuses                          *)

\* The code generation options of the build that set incremental to a
\* directory: -C or --codegen with the value incremental=DIR.
IncrementalGiven ==
    {o \in Range(parsed_options(rust.m_unresolved_args, 2)) :
        /\ o.arg_1 \in {opt.C, opt.codegen}
        /\ StartsWith(o.arg_2, str.incremental \o <<"=">>)}

\* C22: a command line with -C incremental=DIR, -Cincremental=DIR or
\* --codegen incremental=DIR is rejected by parse_options with the error
\* "Can't cache incremental builds", and never accepted.
C22_IncrementalRejected ==
    Parsed /\ IncrementalGiven # {} =>
        Rejected /\ StrContains(rust.what, msg.incremental)

\* The crate types that the --crate-type options of the build list and that
\* are not lib, rlib or staticlib.
OtherCrateTypes ==
    UNION {ListedIn(o) : o \in Range(OptionsOfType("CRATE_TYPE"))}
        \ {str.lib, str.rlib, str.staticlib}

\* C24: a command line in which a --crate-type option lists a type other
\* than lib, rlib and staticlib, alone or with a supported type, is rejected
\* by parse_options.
C24_OtherCrateTypesRejected ==
    Parsed /\ OtherCrateTypes # {} => Rejected

\* The --target values of the build that name a target specification: a
\* value with the extension json, or one for which VALUE.json exists.
TargetSpecifications ==
    {o.arg_2 : o \in {t \in Range(OptionsOfType("TARGET")) :
                          \/ EndsWith(t.arg_2, str.dot_json)
                          \/ file_exists(disk, t.arg_2 \o str.dot_json)}}

\* C25: a command line with a --target value that has the extension json, or
\* for which the file VALUE.json exists, is rejected with the error "Can't
\* cache target VALUE"; with any other --target values the command line is
\* accepted as it is without them, and they are among the relevant arguments.
C25_TargetSpecificationRejected ==
    Parsed =>
        /\ \A value \in TargetSpecifications :
               Rejected /\ StrContains(rust.what, msg.target \o value)
        /\ TargetSpecifications = {} =>
               /\ rust.pc = parse_options(rust_wrapper_t(WithoutOptions("TARGET")),
                                          get_cwd, disk).pc
               /\ Accepted =>
                      \A o \in Range(OptionsOfType("TARGET")) :
                          /\ Contains(rust.m_relevant_args, o.arg_1)
                          /\ Contains(rust.m_relevant_args, o.arg_2)

----------------------------------------------------------------------------
(* Claims about the dep-info probe                                         *)

\* C23: once get_relevant_env_vars or get_implicit_input_files has run the
\* dep-info probe and returned, no later call of either runs it again, and
\* every later call returns, giving the same values.
C23_ProbedAtMostOnce ==
    [][
        rust.pc = "resolved" /\ rust.probes >= 1 =>
            /\ rust'.probes = rust.probes
            /\ rust'.pc = "resolved"
            /\ rust'.m_relevant_env_vars = rust.m_relevant_env_vars
            /\ rust'.m_implicit_input_files = rust.m_implicit_input_files
    ]_vars

\* The options that the dep-info probe is to be run without.
DroppedByProbe == {opt.emit, opt.out_dir, opt.C}

\* The resolved command line of the build, option by option (each option and
\* then its value), without the options of DroppedByProbe and their values.
ResolvedWithoutDropped ==
    <<rust.m_unresolved_args[1]>>
    \o Flatten([k \in DOMAIN parsed_options(rust.m_unresolved_args, 2) |->
                  IF parsed_options(rust.m_unresolved_args, 2)[k].arg_1 \in DroppedByProbe
                  THEN <<>>
                  ELSE AppendPair(<<>>, parsed_options(rust.m_unresolved_args, 2)[k].arg_1,
                                  parsed_options(rust.m_unresolved_args, 2)[k].arg_2)])

\* A hook has just run the dep-info probe.
DepInfoProbed ==
    /\ probe.valid
    /\ rust.called \in {"get_relevant_env_vars", "get_implicit_input_files"}

\* C26: the command line of the dep-info probe is the resolved command line
\* without its --emit, --out-dir and -C options and their values, and with
\* nothing else left out, followed by -o TMPFILE --emit=dep-info, however
\* the options were written and whatever the values of the others are.
C26_ProbeCommandLine ==
    DepInfoProbed =>
        probe.args = ResolvedWithoutDropped \o <<opt.o, tmp_file_path, str.emit_dep_info>>

====
